---- MODULE Spec2Model ----
(***************************************************************************)
(* A model of operators of the geo engine and of its expression compiler:  *)
(*   operators/src/processing/raster_stacker.rs                            *)
(*   operators/src/processing/reprojection.rs                              *)
(*   operators/src/plot/temporal_raster_mean_plot.rs                       *)
(*   expression/src/codegen.rs, expression/src/lib.rs                      *)
(*   operators/src/pro/datatypes.rs                                        *)
(*   operators/src/mock/source/mock_point_source.rs                        *)
(*   services/src/datasets/external/netcdfcf/overviews.rs                  *)
(*                                                                         *)
(* Spec        the RasterStackerProcessor answering one raster query: the  *)
(*             band mapping, the concurrently driven sub-queries           *)
(*             (join_all), the collection of their results and the         *)
(*             stacking adapter.                                           *)
(* SpecInit    RasterStacker::_initialize on a list of raster sources,     *)
(*             then query_processor.                                       *)
(* SpecReproj  Reprojection::initialize.                                   *)
(* SpecStream  the stream of ReprojectionProcessor::vector_query.          *)
(* SpecExpr    an expression from its parse tree over ExpressionAst::new   *)
(*             to a call of the generated function.                        *)
(* SpecName    is_allowed_variable_name.                                   *)
(* SpecPlot    TemporalRasterMeanPlotQueryProcessor::plot_query.           *)
(* SpecZip     the Zip stream adapter over several input streams.          *)
(* SpecPoints  MockPointSourceImpl::query and the polls of its stream.     *)
(* SpecOverviews  concurrent create_overviews and remove_overviews runs    *)
(*             on one overview folder with its in-progress flag.           *)
(*                                                                         *)
(* Every specification leaves the variables of the others at rest.         *)
(* Rust vectors are sequences; a Rust index i is the sequence index i + 1. *)
(***************************************************************************)
EXTENDS Integers, Sequences, FiniteSets, TLC

\* ------------------------------------------------------------------ bounds
\* the largest number of sources of a stacker
MaxSources == 3
\* the largest band count of one source
MaxBands == 2
\* the number of (time step, tile position) pairs every source emits
NumGroups == 2

VARIABLES
    \* RasterStackerProcessor
    bands_per_source,           \* the processor's field
    pc,                         \* position of raster_query / of the consumer
    query_bands,                \* query.bands of the running query
    source_stream_futures,      \* the futures handed to join_all
    selected_bands_per_source,  \* the local vector of raster_query
    first_failed,               \* history: the future that failed first (0: none)
    driven_after_failure,       \* history: a future was driven after a failure
    result,                     \* what raster_query returned
    adapter,                    \* the RasterStackerAdapter behind the output
    output,                     \* the tiles the output stream has yielded
    \* RasterStacker::_initialize
    sources,                    \* self.sources.rasters
    init_pc,
    initialized,                \* the outcome of _initialize
    processor,                  \* the outcome of query_processor
    \* Reprojection::initialize
    vector_sources,             \* self.vector_sources
    raster_sources,             \* self.raster_sources
    target_spatial_reference,   \* self.params.target_spatial_reference
    reproj_pc,
    children_initialized,       \* the sources whose initialize was called
    reproj_initialized,         \* the outcome of initialize
    \* ReprojectionProcessor::vector_query
    source_stream,              \* the elements the source stream yields
    source_pos,                 \* how many of them have been polled
    stream_pc,
    reproj_output,              \* the elements the output stream has yielded
    \* expression: from the parse tree to a call of the generated function
    expr_name,                  \* the arguments of ExpressionAst::new ...
    parameters,
    out_type,
    functions,
    parse_tree,                 \* the tree the parser builds the root from
    root,                       \* the root node, or the parser's error
    expression_ast,             \* the outcome of ExpressionAst::new
    arguments,                  \* the inputs of one call of the generated function
    value,                      \* what that call returned
    expr_pc,
    \* is_allowed_variable_name
    var_name,                   \* the name, a sequence of characters
    var_allowed,                \* what is_allowed_variable_name returned
    name_pc,
    \* TemporalRasterMeanPlotQueryProcessor::plot_query
    tile_stream,                \* the elements the raster query's stream yields
    tile_pos,                   \* how many of them calculate_means has taken
    time_position,              \* the parameter of the operator
    means,                      \* the BTreeMap of calculate_means
    plot,                       \* the outcome of plot_query
    plot_pc,
    \* Zip
    zip_inputs,                 \* history: the items of the input streams at construction
    zip_streams,                \* Zip::streams: the items each stream has yet to yield
    zip_values,                 \* Zip::values
    zip_state,                  \* Zip::state
    zip_emitted,                \* history: the vectors poll_next has returned
    zip_last,                   \* history: what the last poll_next returned
    \* MockPointSourceImpl::query, MockPointSourceResultStream
    points,                     \* MockPointSourceResultStream::points
    chunk_byte_size,            \* ctx.chunk_byte_size
    chunk_size,                 \* MockPointSourceResultStream::chunk_size
    index,                      \* MockPointSourceResultStream::index
    point_chunks,               \* history: the collections the stream has yielded
    point_pc,                   \* history: what the last call returned
    \* netcdfcf/overviews.rs: the overview folder of one dataset and the
    \* concurrent calls of create_overviews and remove_overviews on it
    folder_exists,              \* out_folder_path is a directory
    flag_exists,                \* out_folder_path/.in_progress exists
    folder_files,               \* the folder holds overview files
    db_rows,                    \* the overviews table has rows of the dataset
    run_op,                     \* per run: the function it executes
    force,                      \* per run: remove_overviews' force
    run_pc,                     \* per run: the next statement
    run_result,                 \* per run: the value it returns
    created,                    \* history: its InProgressFlag::create was Ok
    observed,                   \* history: what remove_overviews' checks saw
    deleted,                    \* history: what remove_overviews deleted
    calls                       \* history: the kinds of calls started so far

qvars == <<bands_per_source, pc, query_bands, source_stream_futures,
           selected_bands_per_source, first_failed, driven_after_failure,
           result, adapter, output>>
ivars == <<sources, init_pc, initialized, processor>>
rvars == <<vector_sources, raster_sources, target_spatial_reference, reproj_pc,
           children_initialized, reproj_initialized>>
svars == <<source_stream, source_pos, stream_pc, reproj_output>>
evars == <<expr_name, parameters, out_type, functions, parse_tree, root,
           expression_ast, arguments, value, expr_pc>>
nvars == <<var_name, var_allowed, name_pc>>
mvars == <<tile_stream, tile_pos, time_position, means, plot, plot_pc>>
zvars == <<zip_inputs, zip_streams, zip_values, zip_state, zip_emitted, zip_last>>
pvars == <<points, chunk_byte_size, chunk_size, index, point_chunks, point_pc>>
fsvars == <<folder_exists, flag_exists, folder_files, db_rows>>
ovars == <<fsvars, run_op, force, run_pc, run_result, created, observed, deleted, calls>>
xvars == <<rvars, svars, evars, nvars, mvars, zvars, pvars, ovars>>
vars == <<qvars, ivars, xvars>>

\* the operators that take no part in a specification rest in these states
NoReprojection ==
    [kind |-> "none", error |-> "", expected |-> <<>>, found |-> 0,
     result_descriptor |-> <<>>, state |-> <<>>]
ReprojIdle ==
    /\ vector_sources = <<>>
    /\ raster_sources = <<>>
    /\ target_spatial_reference = ""
    /\ reproj_pc = "off"
    /\ children_initialized = {}
    /\ reproj_initialized = NoReprojection
StreamIdle ==
    /\ source_stream = <<>>
    /\ source_pos = 0
    /\ stream_pc = "off"
    /\ reproj_output = <<>>
NoRoot == [kind |-> "none", node |-> <<>>, error |-> ""]
NoExpressionAst ==
    [kind |-> "none", error |-> "", name |-> "", root |-> <<>>, parameters |-> <<>>,
     out_type |-> "", functions |-> {}]
ExprIdle ==
    /\ expr_name = ""
    /\ parameters = <<>>
    /\ out_type = ""
    /\ functions = {}
    /\ parse_tree = <<>>
    /\ root = NoRoot
    /\ expression_ast = NoExpressionAst
    /\ arguments = <<>>
    /\ value = [kind |-> "none"]
    /\ expr_pc = "off"
NameIdle ==
    /\ var_name = <<>>
    /\ var_allowed = FALSE
    /\ name_pc = "off"
NoPlot == [kind |-> "none", timestamps |-> <<>>, values |-> <<>>]
PlotIdle ==
    /\ tile_stream = <<>>
    /\ tile_pos = 0
    /\ time_position = ""
    /\ means = <<>>
    /\ plot = NoPlot
    /\ plot_pc = "off"
ZipIdle ==
    /\ zip_inputs = <<>>
    /\ zip_streams = <<>>
    /\ zip_values = <<>>
    /\ zip_state = "off"
    /\ zip_emitted = <<>>
    /\ zip_last = "none"
PointsIdle ==
    /\ points = <<>>
    /\ chunk_byte_size = 0
    /\ chunk_size = 0
    /\ index = 0
    /\ point_chunks = <<>>
    /\ point_pc = "off"
\* the concurrent runs on one overview folder
MaxRuns == 2
Runs == 1..MaxRuns

OverviewsIdle ==
    /\ folder_exists = FALSE
    /\ flag_exists = FALSE
    /\ folder_files = FALSE
    /\ db_rows = FALSE
    /\ run_op = [p \in Runs |-> "idle"]
    /\ force = [p \in Runs |-> FALSE]
    /\ run_pc = [p \in Runs |-> "done"]
    /\ run_result = [p \in Runs |-> "none"]
    /\ created = [p \in Runs |-> FALSE]
    /\ observed = [p \in Runs |-> "none"]
    /\ deleted = [p \in Runs |-> {}]
    /\ calls = {}
ExtIdle ==
    /\ ReprojIdle /\ StreamIdle /\ ExprIdle /\ NameIdle /\ PlotIdle /\ ZipIdle
    /\ PointsIdle /\ OverviewsIdle

\* ----------------------------------------------------------------- helpers
RECURSIVE SumSeq(_)
\* Iterator::sum over a vector of usize
SumSeq(s) == IF s = <<>> THEN 0 ELSE Head(s) + SumSeq(Tail(s))

\* Iterator::take(n)
Take(s, n) == SubSeq(s, 1, IF n < Len(s) THEN n ELSE Len(s))

\* BandSelection::Single(b)
Single(b) == [kind |-> "Single", b |-> b]
\* BandSelection::Range(BandRange { start, end }), the half-open [start, end)
Range(s, e) == [kind |-> "Range", start |-> s, end |-> e]
\* Option::None
None == [kind |-> "None"]
IsSome(o) == o.kind # "None"

\* BandSelection::count
Count(bands) == IF bands.kind = "Single" THEN 1 ELSE bands.end - bands.start

\* ------------------------------------------------------- the band mapping
\* a mapping that never clips the start of a range to the source
MapNoStartClip(query_bands_, bands_per_source_, source_index) ==
    LET source_start == SumSeq(Take(bands_per_source_, source_index))
        source_bands == bands_per_source_[source_index + 1]
        source_end == source_start + source_bands
    IN  IF query_bands_.kind = "Single"
        THEN IF query_bands_.b >= source_start /\ query_bands_.b < source_end
             THEN Single(query_bands_.b - source_start)
             ELSE None
        ELSE IF query_bands_.start >= source_end \/ query_bands_.end < source_start
             THEN None
             ELSE Range(0,
                        IF query_bands_.end >= source_end
                        THEN source_bands
                        ELSE query_bands_.end - source_start)

\* a mapping whose Single arm forgets the upper end of the source
MapSingleNoUpperEnd(query_bands_, bands_per_source_, source_index) ==
    LET source_start == SumSeq(Take(bands_per_source_, source_index))
        source_bands == bands_per_source_[source_index + 1]
        source_end == source_start + source_bands
    IN  IF query_bands_.kind = "Single"
        THEN IF query_bands_.b >= source_start
             THEN Single(query_bands_.b - source_start)
             ELSE None
        ELSE IF query_bands_.start >= source_end \/ query_bands_.end < source_start
             THEN None
             ELSE Range(IF query_bands_.start < source_start
                        THEN 0
                        ELSE query_bands_.start - source_start,
                        IF query_bands_.end >= source_end
                        THEN source_bands
                        ELSE query_bands_.end - source_start)

\* map_query_bands_to_source_bands
MapQueryBandsToSourceBands(query_bands_, bands_per_source_, source_index) ==
    LET source_start == SumSeq(Take(bands_per_source_, source_index))
        source_bands == bands_per_source_[source_index + 1]
        source_end == source_start + source_bands
    IN  IF query_bands_.kind = "Single"
        THEN IF query_bands_.b >= source_start /\ query_bands_.b < source_end
             THEN Single(query_bands_.b - source_start)
             ELSE None
        ELSE IF query_bands_.start >= source_end \/ query_bands_.end < source_start
             THEN None
             ELSE Range(IF query_bands_.start < source_start
                        THEN 0
                        ELSE query_bands_.start - source_start,
                        IF query_bands_.end >= source_end
                        THEN source_bands
                        ELSE query_bands_.end - source_start)


\* --------------------------------------------------------- raster_query
RECURSIVE SubQueriesFrom(_, _, _)
\* the for loop of raster_query from source idx on: one entry per source the
\* mapping includes, in source order
SubQueriesFrom(query_bands_, bands_per_source_, idx) ==
    IF idx >= Len(bands_per_source_)
    THEN <<>>
    ELSE LET bands == MapQueryBandsToSourceBands(query_bands_, bands_per_source_, idx)
         IN  (IF IsSome(bands)
              THEN <<[source |-> idx, bands |-> bands, state |-> "pending"]>>
              ELSE <<>>)
             \o SubQueriesFrom(query_bands_, bands_per_source_, idx + 1)

\* a for loop that puts each new sub-query in front of the earlier ones
SourceStreamFuturesReversed(query_bands_, bands_per_source_) ==
    LET fs == SubQueriesFrom(query_bands_, bands_per_source_, 0)
    IN  [k \in 1..Len(fs) |-> fs[Len(fs) + 1 - k]]

\* source_stream_futures after the for loop of raster_query
SourceStreamFutures(query_bands_, bands_per_source_) ==
    SubQueriesFrom(query_bands_, bands_per_source_, 0)

\* a for loop that pushes the band count of the source, not of the selection
SelectedBandsFullCount(futures) ==
    [k \in 1..Len(futures) |-> bands_per_source[futures[k].source + 1]]

\* selected_bands_per_source after the for loop of raster_query
SelectedBandsPerSource(futures) ==
    [k \in 1..Len(futures) |-> Count(futures[k].bands)]

\* the time step and the tile position of the g-th (time, tile position) pair
TimeOf(g) == (g - 1) \div 2
TilePositionOf(g) == (g - 1) % 2

\* the first band of a source that a local band selection names
FirstBand(bands) == IF bands.kind = "Single" THEN bands.b ELSE bands.start

\* the tiles a source yields for a sub-query: by band, tile position, time;
\* band is the index within the sub-query's selection, data names the pixels
SourceStream(source_index, bands) ==
    LET c == Count(bands)
    IN  [n \in 1..(NumGroups * c) |->
            LET g == ((n - 1) \div c) + 1
                k == (n - 1) % c
            IN  [time |-> TimeOf(g),
                 tile_position |-> TilePositionOf(g),
                 band |-> k,
                 data |-> <<source_index, FirstBand(bands) + k, g>>]]

MinOf(S) == CHOOSE x \in S : \A y \in S : x <= y

\* a collection that drops the failed sub-queries while one succeeded
JoinAllSalvage(futures) ==
    LET oks == {k \in 1..Len(futures) : futures[k].state = "ok"}
        errs == {k \in 1..Len(futures) : futures[k].state = "err"}
    IN  IF oks = {} /\ errs # {}
        THEN [kind |-> "Err", source |-> futures[MinOf(errs)].source, streams |-> <<>>]
        ELSE [kind |-> "Ok", source |-> -1,
              streams |-> [k \in 1..Len(futures) |->
                              IF k \in oks
                              THEN SourceStream(futures[k].source, futures[k].bands)
                              ELSE <<>>]]

\* join_all(..).await.into_iter().collect::<Result<Vec<_>>>() on completed
\* futures: the first Err in vector order, or all the streams
JoinAllCollect(futures) ==
    LET errs == {k \in 1..Len(futures) : futures[k].state = "err"}
    IN  IF errs # {}
        THEN [kind |-> "Err", source |-> futures[MinOf(errs)].source, streams |-> <<>>]
        ELSE [kind |-> "Ok", source |-> -1,
              streams |-> [k \in 1..Len(futures) |->
                              SourceStream(futures[k].source, futures[k].bands)]]

NoResult == [kind |-> "none", source |-> -1, streams |-> <<>>]

NoAdapter ==
    [created |-> FALSE, streams |-> <<>>, batch_size_per_stream |-> <<>>,
     current_stream |-> 0, current_stream_item |-> 0, finished |-> FALSE]

\* RasterStackerAdapter::new(source_streams, selected_bands_per_source)
NewAdapter(streams, bands_per_stream) ==
    [created |-> TRUE, streams |-> streams, batch_size_per_stream |-> bands_per_stream,
     current_stream |-> 0, current_stream_item |-> 0, finished |-> FALSE]

\* the band vectors of the model, and the queries on a stacker: band indices
\* up to one past its last band
BandVectors == UNION {[1..n -> 1..MaxBands] : n \in 1..MaxSources}
QueryBands(bands_per_source_) ==
    LET top == SumSeq(bands_per_source_) + 1
    IN  {Single(b) : b \in 0..top}
        \cup {Range(s, e) : <<s, e>> \in {p \in (0..top) \X (0..top) : p[1] < p[2]}}

InitIdle ==
    /\ sources = <<>>
    /\ init_pc = "off"
    /\ initialized = [kind |-> "none", result_descriptor |-> <<>>, bands_per_source |-> <<>>]
    /\ processor = [kind |-> "none", data_type |-> "", bands_per_source |-> <<>>]

Init ==
    /\ bands_per_source \in BandVectors
    /\ pc = "idle"
    /\ query_bands = None
    /\ source_stream_futures = <<>>
    /\ selected_bands_per_source = <<>>
    /\ first_failed = 0
    /\ driven_after_failure = FALSE
    /\ result = NoResult
    /\ adapter = NoAdapter
    /\ output = <<>>
    /\ InitIdle
    /\ ExtIdle

\* raster_query up to the await of join_all: the for loop over the sources
RasterQuery(q) ==
    /\ pc = "idle"
    /\ pc' = "joining"
    /\ query_bands' = q
    /\ source_stream_futures' = SourceStreamFutures(q, bands_per_source)
    /\ selected_bands_per_source' = SelectedBandsPerSource(source_stream_futures')
    /\ UNCHANGED <<bands_per_source, first_failed, driven_after_failure, result,
                   adapter, output, ivars, xvars>>

\* join_all drives one pending sub-query to its end: source.raster_query
\* returns the stream (ok) or an error
DriveSubQuery(k, outcome) ==
    /\ pc = "joining"
    /\ source_stream_futures[k].state = "pending"
    /\ source_stream_futures' =
           [source_stream_futures EXCEPT ![k].state = outcome]
    /\ first_failed' = IF outcome = "err" /\ first_failed = 0 THEN k ELSE first_failed
    /\ driven_after_failure' = (driven_after_failure \/ first_failed # 0)
    /\ UNCHANGED <<bands_per_source, pc, query_bands, selected_bands_per_source,
                   result, adapter, output, ivars, xvars>>

\* join_all is ready once every future is; raster_query collects and returns
JoinAllReady ==
    /\ pc = "joining"
    /\ \A k \in 1..Len(source_stream_futures) :
           source_stream_futures[k].state # "pending"
    /\ result' = JoinAllCollect(source_stream_futures)
    /\ IF result'.kind = "Err"
       THEN /\ pc' = "returned_err"
            /\ adapter' = adapter
       ELSE /\ pc' = "streaming"
            /\ adapter' = NewAdapter(result'.streams, selected_bands_per_source)
    /\ UNCHANGED <<bands_per_source, query_bands, source_stream_futures,
                   selected_bands_per_source, first_failed, driven_after_failure,
                   output, ivars, xvars>>

\* RasterStackerAdapter::poll_next: batch_size_per_stream[i] tiles of stream i,
\* then of stream i + 1, ..., round after round; band = offset of the stream
\* among the selected bands + position in the batch
PollNext ==
    /\ pc = "streaming"
    /\ LET cur == adapter.current_stream
           n == Len(adapter.streams)
       IN  IF n = 0 \/ adapter.streams[cur + 1] = <<>>
           THEN /\ adapter' = [adapter EXCEPT !.finished = TRUE]
                /\ pc' = "finished"
                /\ output' = output
           ELSE LET tile == Head(adapter.streams[cur + 1])
                    band == SumSeq(Take(adapter.batch_size_per_stream, cur))
                            + adapter.current_stream_item
                    item == adapter.current_stream_item + 1
                    next == item >= adapter.batch_size_per_stream[cur + 1]
                IN  /\ output' = Append(output,
                           [tile |-> [tile EXCEPT !.band = band],
                            stream |-> cur,
                            source_tile |-> tile])
                    /\ adapter' = [adapter EXCEPT
                           !.streams[cur + 1] = Tail(@),
                           !.current_stream_item = IF next THEN 0 ELSE item,
                           !.current_stream = IF next THEN (cur + 1) % n ELSE cur]
                    /\ pc' = pc
    /\ UNCHANGED <<bands_per_source, query_bands, source_stream_futures,
                   selected_bands_per_source, first_failed, driven_after_failure,
                   result, ivars, xvars>>

Next ==
    \/ \E q \in QueryBands(bands_per_source) : RasterQuery(q)
    \/ \E k \in 1..Len(source_stream_futures), outcome \in {"ok", "err"} :
           DriveSubQuery(k, outcome)
    \/ JoinAllReady
    \/ PollNext

Spec == Init /\ [][Next]_vars


\* ------------------------------------------------- RasterStacker::_initialize
\* i32::MAX
I32Max == 2147483647

\* `as i32` of a usize below 2^32: values above i32::MAX wrap to the negatives
AsI32(n) == IF n <= I32Max THEN n ELSE ((n - I32Max) - 1) - I32Max - 1

\* a result descriptor that takes the band count of the first source too
ResultDescriptorFirstBands(in_descriptors) ==
    [data_type |-> in_descriptors[1].data_type,
     spatial_reference |-> in_descriptors[1].spatial_reference,
     measurement |-> in_descriptors[1].measurement,
     bands |-> in_descriptors[1].bands]

\* the result descriptor _initialize builds from the sources' descriptors
\* (time, bbox and resolution are left out of the model)
ResultDescriptor(in_descriptors) ==
    [data_type |-> in_descriptors[1].data_type,
     spatial_reference |-> in_descriptors[1].spatial_reference,
     measurement |-> in_descriptors[1].measurement,
     bands |-> AsI32(SumSeq([k \in 1..Len(in_descriptors) |-> in_descriptors[k].bands]))]

DataTypes == {"U8", "F32"}
SpatialReferences == {"EPSG:4326", "EPSG:3857"}
Measurements == {"unitless", "continuous"}
Descriptors ==
    [data_type : DataTypes, spatial_reference : SpatialReferences,
     measurement : Measurements, bands : 1..MaxBands]
SourceLists == UNION {[1..n -> Descriptors] : n \in 0..MaxSources}

QueryIdle ==
    /\ bands_per_source = <<>>
    /\ pc = "off"
    /\ query_bands = None
    /\ source_stream_futures = <<>>
    /\ selected_bands_per_source = <<>>
    /\ first_failed = 0
    /\ driven_after_failure = FALSE
    /\ result = NoResult
    /\ adapter = NoAdapter
    /\ output = <<>>

NotInitialized ==
    [kind |-> "none", result_descriptor |-> <<>>, bands_per_source |-> <<>>]

NoProcessor == [kind |-> "none", data_type |-> "", bands_per_source |-> <<>>]

InitInit ==
    /\ sources \in SourceLists
    /\ init_pc = "new"
    /\ initialized = NotInitialized
    /\ processor = NoProcessor
    /\ QueryIdle
    /\ ExtIdle

\* RasterStacker::_initialize; sources_ok: initialize_sources succeeds
Initialize(sources_ok) ==
    /\ init_pc = "new"
    /\ init_pc' = "done"
    /\ initialized' =
           IF ~sources_ok
           THEN [NotInitialized EXCEPT !.kind = "Err"]
           ELSE IF Len(sources) = 0
           THEN \* in_descriptors[0] of an empty vector
                [NotInitialized EXCEPT !.kind = "panic"]
           ELSE [kind |-> "Ok",
                 result_descriptor |-> ResultDescriptor(sources),
                 bands_per_source |-> [k \in 1..Len(sources) |-> sources[k].bands]]
    /\ UNCHANGED <<sources, processor, qvars, xvars>>

\* TypedRasterQueryProcessor::get_u8, get_f32, ...: the boxed processor if
\* the variant is the asked one
GetTyped(typed_processor, datatype) ==
    IF typed_processor = datatype THEN [kind |-> "Some"] ELSE None

\* InitializedRasterStacker::query_processor; processors_ok: every source
\* hands out its query processor. A source's processor has the data type of
\* the source's result descriptor.
QueryProcessor(processors_ok) ==
    /\ init_pc = "done"
    /\ initialized.kind = "Ok"
    /\ init_pc' = "processor"
    /\ processor' =
           IF ~processors_ok
           THEN [NoProcessor EXCEPT !.kind = "Err"]
           ELSE LET typed_raster_processors ==
                        [k \in 1..Len(sources) |-> sources[k].data_type]
                    datatype == typed_raster_processors[1]
                IN  IF \E k \in 1..Len(sources) :
                           GetTyped(typed_raster_processors[k], datatype) = None
                    THEN \* expect("all inputs should have the same datatype ...")
                         [NoProcessor EXCEPT !.kind = "panic"]
                    ELSE [kind |-> "Ok", data_type |-> datatype,
                          bands_per_source |-> initialized.bands_per_source]
    /\ UNCHANGED <<sources, initialized, qvars, xvars>>

NextInit ==
    \/ \E sources_ok \in BOOLEAN : Initialize(sources_ok)
    \/ \E processors_ok \in BOOLEAN : QueryProcessor(processors_ok)

SpecInit == InitInit /\ [][NextInit]_vars


\* --------------------------------------------------- Reprojection::initialize
\* the largest numbers of vector and of raster sources of a Reprojection
MaxVectorSources == 2
MaxRasterSources == 1

VectorDataTypes == {"MultiPoint", "MultiPolygon"}
SourceSpatialReferences == {"EPSG:4326", "Unreferenced"}
TargetSpatialReferences == {"EPSG:4326", "EPSG:900913"}
\* a vector source: whether its initialize succeeds, and its result
\* descriptor (the columns are left out of the model)
VectorOperators ==
    [init_ok : BOOLEAN, spatial_reference : SourceSpatialReferences,
     data_type : VectorDataTypes]
VectorSourceLists == UNION {[1..n -> VectorOperators] : n \in 0..MaxVectorSources}
RasterSourceLists == UNION {[1..n -> {"raster"}] : n \in 0..MaxRasterSources}

\* the two checks in the other order
EnsureRasterInputsFirst(vector_sources_, raster_sources_) ==
    IF Len(raster_sources_) # 0
    THEN [NoReprojection EXCEPT !.kind = "Err",
                                !.error = "InvalidNumberOfRasterInputs",
                                !.expected = [start |-> 0, end |-> 1],
                                !.found = Len(raster_sources_)]
    ELSE IF Len(vector_sources_) # 1
    THEN [NoReprojection EXCEPT !.kind = "Err",
                                !.error = "InvalidNumberOfVectorInputs",
                                !.expected = [start |-> 1, end |-> 2],
                                !.found = Len(vector_sources_)]
    ELSE None

\* the two ensure! of initialize: the error of the first that fails, or None
EnsureNumberOfInputs(vector_sources_, raster_sources_) ==
    IF Len(vector_sources_) # 1
    THEN [NoReprojection EXCEPT !.kind = "Err",
                                !.error = "InvalidNumberOfVectorInputs",
                                !.expected = [start |-> 1, end |-> 2],
                                !.found = Len(vector_sources_)]
    ELSE IF Len(raster_sources_) # 0
    THEN [NoReprojection EXCEPT !.kind = "Err",
                                !.error = "InvalidNumberOfRasterInputs",
                                !.expected = [start |-> 0, end |-> 1],
                                !.found = Len(raster_sources_)]
    ELSE None

InitReproj ==
    /\ vector_sources \in VectorSourceLists
    /\ raster_sources \in RasterSourceLists
    /\ target_spatial_reference \in TargetSpatialReferences
    /\ reproj_pc = "new"
    /\ children_initialized = {}
    /\ reproj_initialized = NoReprojection
    /\ StreamIdle
    /\ ExprIdle
    /\ NameIdle
    /\ PlotIdle
    /\ ZipIdle
    /\ PointsIdle
    /\ OverviewsIdle
    /\ QueryIdle
    /\ InitIdle

\* Reprojection::initialize
ReprojInitialize ==
    /\ reproj_pc = "new"
    /\ reproj_pc' = "done"
    /\ LET ensured == EnsureNumberOfInputs(vector_sources, raster_sources)
           \* collect::<Result<Vec<_>>>() stops at the first source that fails
           failing == {k \in 1..Len(vector_sources) : ~vector_sources[k].init_ok}
           called == IF failing = {}
                     THEN 1..Len(vector_sources)
                     ELSE 1..MinOf(failing)
       IN  IF ensured # None
           THEN /\ reproj_initialized' = ensured
                /\ children_initialized' = {}
           ELSE /\ children_initialized' = called
                /\ reproj_initialized' =
                       IF failing # {}
                       THEN [NoReprojection EXCEPT !.kind = "Err",
                                                   !.error = "SourceInitialize"]
                       ELSE LET in_desc == vector_sources[1]
                            IN  IF in_desc.spatial_reference = "Unreferenced"
                                THEN \* Option::from(..).unwrap() of None
                                     [NoReprojection EXCEPT !.kind = "panic"]
                                ELSE [NoReprojection EXCEPT
                                         !.kind = "Ok",
                                         !.result_descriptor =
                                             [spatial_reference |-> target_spatial_reference,
                                              data_type |-> in_desc.data_type],
                                         !.state = <<in_desc.spatial_reference,
                                                     target_spatial_reference>>]
    /\ UNCHANGED <<vector_sources, raster_sources, target_spatial_reference,
                   svars, evars, nvars, mvars, zvars, pvars, ovars, qvars, ivars>>

NextReproj == ReprojInitialize

SpecReproj == InitReproj /\ [][NextReproj]_vars


\* ------------------------------------- ReprojectionProcessor::vector_query
\* the largest number of elements of a source stream
MaxChunks == 3

\* an element of a stream of Result<collection>: a feature collection in a
\* spatial reference (reprojectable: collection.reproject succeeds on it),
\* or an error
OkChunk(srs, reprojectable) ==
    [kind |-> "Ok", srs |-> srs, reprojectable |-> reprojectable]
ErrElement == [kind |-> "Err", srs |-> "", reprojectable |-> FALSE]
Panic == [kind |-> "panic", srs |-> "", reprojectable |-> FALSE]
SourceElements == {OkChunk("from", TRUE), OkChunk("from", FALSE), ErrElement}
SourceStreams == UNION {[1..n -> SourceElements] : n \in 0..MaxChunks}

\* a map that hands an error of the source on as an empty collection
MapOkHidesErr(element) ==
    IF element.kind = "Err"
    THEN OkChunk("to", TRUE)
    ELSE IF element.reprojectable
    THEN OkChunk("to", TRUE)
    ELSE Panic

\* map_ok(|collection| collection.reproject(projector).unwrap()) on one
\* element: an Err passes through, an Ok is reprojected, and the unwrap of a
\* failed reprojection panics
MapOkReproject(element) ==
    IF element.kind = "Err"
    THEN element
    ELSE IF element.reprojectable
    THEN OkChunk("to", TRUE)
    ELSE Panic

InitStream ==
    /\ source_stream \in SourceStreams
    /\ source_pos = 0
    /\ stream_pc = "new"
    /\ reproj_output = <<>>
    /\ ReprojIdle
    /\ ExprIdle
    /\ NameIdle
    /\ PlotIdle
    /\ ZipIdle
    /\ PointsIdle
    /\ OverviewsIdle
    /\ QueryIdle
    /\ InitIdle

\* vector_query up to the returned stream; known_srs: from_known_srs finds a
\* projector, bbox_ok: the query's bounding box reprojects (query_rewrite_fn
\* unwraps both)
VectorQuery(known_srs, bbox_ok) ==
    /\ stream_pc = "new"
    /\ stream_pc' = IF known_srs /\ bbox_ok THEN "streaming" ELSE "panicked"
    /\ UNCHANGED <<source_stream, source_pos, reproj_output, rvars, evars, nvars, mvars, zvars, pvars, ovars, qvars, ivars>>

\* one poll of the returned stream
ReprojPollNext ==
    /\ stream_pc = "streaming"
    /\ IF source_pos = Len(source_stream)
       THEN /\ stream_pc' = "ended"
            /\ UNCHANGED <<source_pos, reproj_output>>
       ELSE LET mapped == MapOkReproject(source_stream[source_pos + 1])
            IN  /\ source_pos' = source_pos + 1
                /\ IF mapped = Panic
                   THEN /\ stream_pc' = "panicked"
                        /\ UNCHANGED reproj_output
                   ELSE /\ reproj_output' = Append(reproj_output, mapped)
                        /\ UNCHANGED stream_pc
    /\ UNCHANGED <<source_stream, rvars, evars, nvars, mvars, zvars, pvars, ovars, qvars, ivars>>

NextStream ==
    \/ \E known_srs \in BOOLEAN, bbox_ok \in BOOLEAN : VectorQuery(known_srs, bbox_ok)
    \/ ReprojPollNext

SpecStream == InitStream /\ [][NextStream]_vars


\* ------------------------------------------------ expression: codegen.rs
\* DataType, restricted to two of its four variants
ExprDataTypes == {"Number", "MultiPoint"}

\* AstNode and BooleanExpression values: records with the variant in `kind`
Constant(n) == [kind |-> "Constant", n |-> n]
NoData == [kind |-> "NoData"]
Variable(name, data_type) == [kind |-> "Variable", name |-> name, data_type |-> data_type]
Function(function, args) == [kind |-> "Function", function |-> function, args |-> args]
Branch(condition_branches, else_branch) ==
    [kind |-> "Branch", condition_branches |-> condition_branches,
     else_branch |-> else_branch]
AssignmentsAndExpression(assignments, expression) ==
    [kind |-> "AssignmentsAndExpression", assignments |-> assignments,
     expression |-> expression]
ConditionBranch(condition, body) == [condition |-> condition, body |-> body]
Assignment(identifier, expression) == [identifier |-> identifier, expression |-> expression]
BoolConstant(b) == [kind |-> "Constant", b |-> b]
Comparison(left, op, right) == [kind |-> "Comparison", left |-> left, op |-> op, right |-> right]
Operation(left, op, right) == [kind |-> "Operation", left |-> left, op |-> op, right |-> right]

\* the function `add` of the registry: two numbers to a number
Add == [name |-> "add", output_type |-> "Number"]

RECURSIVE DataTypeOf(_)
\* AstNode::data_type
DataTypeOf(node) ==
    CASE node.kind \in {"Constant", "NoData"} -> "Number"
      [] node.kind = "Variable" -> node.data_type
      [] node.kind = "Function" -> node.function.output_type
      [] node.kind = "Branch" -> DataTypeOf(node.else_branch)
      [] node.kind = "AssignmentsAndExpression" -> DataTypeOf(node.expression)

\* a variable lowered to the literal None
LowerVariableAsNone(name) == [t |-> "None"]

\* AstNode::Variable and Identifier to tokens: the bare identifier, which
\* names a value of type Option<_> in the generated function
LowerVariable(name) == [t |-> "ident", name |-> name]

RECURSIVE Lower(_), LowerBool(_)
\* <AstNode as ToTokens>::to_tokens: the Rust expression generated for a node
Lower(node) ==
    CASE node.kind = "Constant" -> [t |-> "Some", n |-> node.n]
      [] node.kind = "NoData" -> [t |-> "None"]
      [] node.kind = "Variable" -> LowerVariable(node.name)
      [] node.kind = "Function" ->
             [t |-> "call", fn_name |-> node.function.name,
              args |-> [k \in 1..Len(node.args) |-> Lower(node.args[k])]]
      [] node.kind = "Branch" ->
             [t |-> "if",
              arms |-> [k \in 1..Len(node.condition_branches) |->
                           [condition |-> LowerBool(node.condition_branches[k].condition),
                            body |-> Lower(node.condition_branches[k].body)]],
              else_ |-> Lower(node.else_branch)]
      [] node.kind = "AssignmentsAndExpression" ->
             [t |-> "block",
              lets |-> [k \in 1..Len(node.assignments) |->
                           [identifier |-> node.assignments[k].identifier,
                            expression |-> Lower(node.assignments[k].expression)]],
              expression |-> Lower(node.expression)]

\* <BooleanExpression as ToTokens>::to_tokens
LowerBool(boolean) ==
    CASE boolean.kind = "Constant" -> [t |-> "bool", b |-> boolean.b]
      [] boolean.kind = "Comparison" ->
             [t |-> "cmp", op |-> boolean.op,
              left |-> Lower(boolean.left), right |-> Lower(boolean.right)]
      [] boolean.kind = "Operation" ->
             [t |-> "logic", op |-> boolean.op,
              left |-> LowerBool(boolean.left), right |-> LowerBool(boolean.right)]


\* Option values of the generated code
Some(v) == [kind |-> "Some", v |-> v]

\* the generated registry function behind a call: None if an argument is
\* None, else the function of the values
CallFunction(fn_name, args) ==
    IF \E k \in 1..Len(args) : args[k] = None
    THEN None
    ELSE CASE fn_name = "add" -> Some(args[1].v + args[2].v)

\* `(left) op (right)` on two Option<f64>: Option's derived order puts None
\* below every Some
CompareOptions(op, left, right) ==
    LET lt == \/ left = None /\ right # None
              \/ left # None /\ right # None /\ left.v < right.v
    IN  CASE op = "==" -> left = right
          [] op = "!=" -> left # right
          [] op = "<" -> lt
          [] op = "<=" -> lt \/ left = right
          [] op = ">" -> ~(lt \/ left = right)
          [] op = ">=" -> ~lt

RECURSIVE RunRust(_, _), RunBool(_, _), RunLets(_, _)
\* the value of a generated expression with the bindings env
RunRust(tokens, env) ==
    CASE tokens.t = "Some" -> Some(tokens.n)
      [] tokens.t = "None" -> None
      [] tokens.t = "ident" -> env[tokens.name]
      [] tokens.t = "call" ->
             CallFunction(tokens.fn_name,
                          [k \in 1..Len(tokens.args) |-> RunRust(tokens.args[k], env)])
      [] tokens.t = "if" ->
             LET taken == {k \in 1..Len(tokens.arms) : RunBool(tokens.arms[k].condition, env)}
             IN  IF taken = {}
                 THEN RunRust(tokens.else_, env)
                 ELSE RunRust(tokens.arms[MinOf(taken)].body, env)
      [] tokens.t = "block" -> RunRust(tokens.expression, RunLets(tokens.lets, env))

RunBool(tokens, env) ==
    CASE tokens.t = "bool" -> tokens.b
      [] tokens.t = "cmp" ->
             CompareOptions(tokens.op, RunRust(tokens.left, env), RunRust(tokens.right, env))
      [] tokens.t = "logic" ->
             IF tokens.op = "&&"
             THEN RunBool(tokens.left, env) /\ RunBool(tokens.right, env)
             ELSE RunBool(tokens.left, env) \/ RunBool(tokens.right, env)

\* `let identifier = expression;` one after the other
RunLets(lets, env) ==
    IF lets = <<>>
    THEN env
    ELSE LET first == lets[1]
             bound == RunRust(first.expression, env)
         IN  RunLets(Tail(lets),
                     [x \in DOMAIN env \cup {first.identifier} |->
                         IF x = first.identifier THEN bound ELSE env[x]])

\* a branch built without the comparison of its bodies' types
BranchTypesUnchecked(condition_branches, else_branch) == TRUE

\* the check of a branch at its construction: every body has the data type
\* of the else body
BranchTypesAgree(condition_branches, else_branch) ==
    \A k \in 1..Len(condition_branches) :
        DataTypeOf(condition_branches[k].body) = DataTypeOf(else_branch)

RECURSIVE Validate(_), ValidateBool(_)
\* the construction of a node from its parse tree: FALSE if a branch within
\* it is rejected
Validate(node) ==
    CASE node.kind \in {"Constant", "NoData", "Variable"} -> TRUE
      [] node.kind = "Function" -> \A k \in 1..Len(node.args) : Validate(node.args[k])
      [] node.kind = "Branch" ->
             /\ \A k \in 1..Len(node.condition_branches) :
                    /\ ValidateBool(node.condition_branches[k].condition)
                    /\ Validate(node.condition_branches[k].body)
             /\ Validate(node.else_branch)
             /\ BranchTypesAgree(node.condition_branches, node.else_branch)
      [] node.kind = "AssignmentsAndExpression" ->
             /\ \A k \in 1..Len(node.assignments) : Validate(node.assignments[k].expression)
             /\ Validate(node.expression)

ValidateBool(boolean) ==
    CASE boolean.kind = "Constant" -> TRUE
      [] boolean.kind = "Comparison" -> Validate(boolean.left) /\ Validate(boolean.right)
      [] boolean.kind = "Operation" -> ValidateBool(boolean.left) /\ ValidateBool(boolean.right)


\* the function `pi` of the registry
Pi == [name |-> "pi", output_type |-> "Number"]

\* Parameter::Number(identifier), Parameter::MultiPoint(identifier)
NumberParameter(identifier) == [identifier |-> identifier, data_type |-> "Number"]
MultiPointParameter(identifier) == [identifier |-> identifier, data_type |-> "MultiPoint"]

\* the parse trees of the model
VarA == Variable("a", "Number")
VarB == Variable("b", "Number")
VarC == Variable("c", "Number")
VarG == Variable("g", "MultiPoint")
Leaves == {Constant(1), NoData, VarA, VarB, VarG}
NumberLeaves == Leaves \ {VarG}
Conditions ==
    {BoolConstant(TRUE), BoolConstant(FALSE),
     Comparison(VarA, "<", Constant(1)),
     Comparison(VarA, "==", VarB),
     Operation(Comparison(VarA, ">=", Constant(1)), "&&", Comparison(VarB, "!=", NoData)),
     Operation(Comparison(VarA, ">", VarB), "||", Comparison(VarB, "<=", Constant(1)))}
Sums == {Function(Add, <<x, y>>) : x \in NumberLeaves, y \in NumberLeaves}
Ifs == {Branch(<<ConditionBranch(c, body)>>, e) :
            c \in Conditions, body \in Leaves, e \in Leaves}
ElseIfs ==
    {Branch(<<ConditionBranch(Comparison(VarA, "<", Constant(2)), b1),
              ConditionBranch(Comparison(VarB, ">", Constant(2)), b2)>>, e) :
         b1 \in {Constant(1), VarA, VarG}, b2 \in {Constant(1), VarA, VarG},
         e \in {Constant(1), VarA, VarG}}
Lets ==
    {AssignmentsAndExpression(<<Assignment("c", x)>>, e) :
         x \in NumberLeaves, e \in {VarC, Function(Add, <<VarC, VarB>>)}}
Nested ==
    {Function(Add, <<Branch(<<ConditionBranch(Comparison(VarA, "<", Constant(3)), x)>>, y),
                     VarB>>) :
         x \in Leaves, y \in NumberLeaves}
ParseTrees == Leaves \cup Sums \cup Ifs \cup ElseIfs \cup Lets \cup Nested

\* the inputs of the generated function
NumberInputs == {None, Some(2), Some(3)}
MultiPointInputs == {None, Some("point")}
Arguments == [a : NumberInputs, b : NumberInputs, g : MultiPointInputs]

\* a constructor without the check of the name
NewWithoutEnsure(name, parameters_, out_type_, functions_, root_) ==
    [NoExpressionAst EXCEPT !.kind = "Ok", !.name = name, !.root = root_,
                            !.parameters = parameters_, !.out_type = out_type_,
                            !.functions = functions_]

\* ExpressionAst::new
NewExpressionAst(name, parameters_, out_type_, functions_, root_) ==
    IF name = ""
    THEN [NoExpressionAst EXCEPT !.kind = "Err", !.error = "EmptyExpressionName"]
    ELSE [NoExpressionAst EXCEPT !.kind = "Ok", !.name = name, !.root = root_,
                                 !.parameters = parameters_, !.out_type = out_type_,
                                 !.functions = functions_]

\* <ExpressionAst as ToTokens>::to_tokens: the generated function, after the
\* definitions of the registry functions it may call
LowerExpressionAst(ast) ==
    [functions |-> {f.name : f \in ast.functions},
     fn_name |-> ast.name,
     params |-> [k \in 1..Len(ast.parameters) |->
                    [param |-> ast.parameters[k].identifier,
                     type |-> <<"Option", ast.parameters[k].data_type>>]],
     returns |-> <<"Option", ast.out_type>>,
     content |-> Lower(ast.root)]

InitExpr ==
    /\ expr_name \in {"", "expression"}
    /\ parameters \in {<<NumberParameter("a"), NumberParameter("b"), MultiPointParameter("g")>>,
                       <<MultiPointParameter("g"), NumberParameter("a"), NumberParameter("b")>>}
    /\ out_type \in ExprDataTypes
    /\ functions \in {{Add}, {Add, Pi}}
    /\ parse_tree \in ParseTrees
    /\ root = NoRoot
    /\ expression_ast = NoExpressionAst
    /\ arguments = <<>>
    /\ value = [kind |-> "none"]
    /\ expr_pc = "parse"
    /\ ReprojIdle
    /\ StreamIdle
    /\ NameIdle
    /\ PlotIdle
    /\ ZipIdle
    /\ PointsIdle
    /\ OverviewsIdle
    /\ QueryIdle
    /\ InitIdle

\* the parser builds the root node, or rejects the tree
BuildAst ==
    /\ expr_pc = "parse"
    /\ expr_pc' = "parsed"
    /\ root' = IF Validate(parse_tree)
               THEN [NoRoot EXCEPT !.kind = "Ok", !.node = parse_tree]
               ELSE [NoRoot EXCEPT !.kind = "Err", !.error = "BranchTypeMismatch"]
    /\ UNCHANGED <<expr_name, parameters, out_type, functions, parse_tree,
                   expression_ast, arguments, value, rvars, svars, nvars, mvars, zvars, pvars, ovars, qvars, ivars>>

\* ExpressionAst::new on the root
New ==
    /\ expr_pc = "parsed"
    /\ root.kind = "Ok"
    /\ expr_pc' = "new"
    /\ expression_ast' = NewExpressionAst(expr_name, parameters, out_type, functions, root.node)
    /\ UNCHANGED <<expr_name, parameters, out_type, functions, parse_tree, root,
                   arguments, value, rvars, svars, nvars, mvars, zvars, pvars, ovars, qvars, ivars>>

\* one call of the function generated from the syntax tree; the generated
\* code compiles only if the content has the declared output type
Invoke(args) ==
    /\ expr_pc = "new"
    /\ expression_ast.kind = "Ok"
    /\ LET code == LowerExpressionAst(expression_ast)
       IN  /\ code.returns = <<"Option", DataTypeOf(expression_ast.root)>>
           /\ \A k \in 1..Len(code.params) : code.params[k].param \in DOMAIN args
           /\ value' = RunRust(code.content, args)
    /\ arguments' = args
    /\ expr_pc' = "invoked"
    /\ UNCHANGED <<expr_name, parameters, out_type, functions, parse_tree, root,
                   expression_ast, rvars, svars, nvars, mvars, zvars, pvars, ovars, qvars, ivars>>

NextExpr ==
    \/ BuildAst
    \/ New
    \/ \E args \in Arguments : Invoke(args)

SpecExpr == InitExpr /\ [][NextExpr]_vars


\* ------------------------------------- expression: is_allowed_variable_name
\* the longest name of the model
MaxNameLen == 3

\* char::is_ascii_alphanumeric
AsciiAlphanumerics ==
    {"a", "b", "c", "d", "e", "f", "g", "h", "i", "j", "k", "l", "m",
     "n", "o", "p", "q", "r", "s", "t", "u", "v", "w", "x", "y", "z",
     "A", "B", "C", "D", "E", "F", "G", "H", "I", "J", "K", "L", "M",
     "N", "O", "P", "Q", "R", "S", "T", "U", "V", "W", "X", "Y", "Z",
     "0", "1", "2", "3", "4", "5", "6", "7", "8", "9"}
IsAsciiAlphanumeric(c) == c \in AsciiAlphanumerics

\* the prefix of the names of the generated registry functions, shortened
\* to a letter and an underscore
FUNCTION_PREFIX == <<"f", "_">>

\* str::starts_with
StartsWith(string, prefix) ==
    /\ Len(string) >= Len(prefix)
    /\ SubSeq(string, 1, Len(prefix)) = prefix

\* the characters and the names of the model
Chars == {"i", "f", "n", "1", "_", "-"}
Names == UNION {[1..n -> Chars] : n \in 0..MaxNameLen}

\* is_allowed_variable_name
IsAllowedVariableName(name) ==
    /\ \A k \in 1..Len(name) : IsAsciiAlphanumeric(name[k]) \/ name[k] = "_"
    /\ ~StartsWith(name, FUNCTION_PREFIX)

InitName ==
    /\ var_name \in Names
    /\ var_allowed = FALSE
    /\ name_pc = "new"
    /\ ReprojIdle
    /\ StreamIdle
    /\ ExprIdle
    /\ PlotIdle
    /\ ZipIdle
    /\ PointsIdle
    /\ OverviewsIdle
    /\ QueryIdle
    /\ InitIdle

CheckVariableName ==
    /\ name_pc = "new"
    /\ name_pc' = "done"
    /\ var_allowed' = IsAllowedVariableName(var_name)
    /\ UNCHANGED <<var_name, rvars, svars, evars, mvars, zvars, pvars, ovars, qvars, ivars>>

NextName == CheckVariableName

SpecName == InitName /\ [][NextName]_vars


\* ------------------------------------------ plot/temporal_raster_mean_plot.rs
\* the largest number of elements of the tile stream
MaxTiles == 2

\* a pixel as f64: a number or NaN
Px(v) == [nan |-> FALSE, v |-> v]
NaN == [nan |-> TRUE, v |-> 0]
\* `value == no_data` on pixels: NaN equals nothing
PixelEq(a, b) == ~a.nan /\ ~b.nan /\ a.v = b.v

TimePositions == {"Start", "Center", "End"}
TimeIntervals ==
    {[start |-> -3, end |-> 0], [start |-> -2, end |-> -1], [start |-> 0, end |-> 3]}
TileData == {<<Px(1), Px(3)>>, <<NaN, Px(2)>>, <<Px(1), Px(1)>>}
NoDataValues == {None, Some(Px(1))}
\* the items of the tile stream: Ok(tile) or Err
OkTiles ==
    [kind : {"Ok"}, time : TimeIntervals, data : TileData, no_data_value : NoDataValues]
ErrTile == [kind |-> "Err", time |-> <<>>, data |-> <<>>, no_data_value |-> None]
TileStreams == UNION {[1..n -> OkTiles \cup {ErrTile}] : n \in 0..MaxTiles}

\* util::math::average_floor: the floor of the average of two integers
AverageFloor(a, b) == (a + b) \div 2

\* a projection that always takes the start of the interval
TimeIntervalProjectionStart(time_interval, time_position_) == time_interval.start

\* time_interval_projection
TimeIntervalProjection(time_interval, time_position_) ==
    CASE time_position_ = "Start" -> time_interval.start
      [] time_position_ = "Center" -> AverageFloor(time_interval.start, time_interval.end)
      [] time_position_ = "End" -> time_interval.end

\* MeanCalculator::default; the mean is kept as the exact fraction num / den
DefaultMeanCalculator == [mean |-> [num |-> 0, den |-> 1], n |-> 0]

\* MeanCalculator::add_single_value:
\* n += 1; delta = value - mean; mean += delta / n
AddSingleValue(calculator, value_) ==
    IF value_.nan
    THEN calculator
    ELSE LET n == calculator.n + 1
             mean == calculator.mean
             delta == [num |-> value_.v * mean.den - mean.num, den |-> mean.den]
         IN  [mean |-> [num |-> mean.num * n + delta.num, den |-> mean.den * n],
              n |-> n]

RECURSIVE AddWithoutNoData(_, _), AddWithNoData(_, _, _)
\* MeanCalculator::add_without_no_data
AddWithoutNoData(calculator, values) ==
    IF values = <<>>
    THEN calculator
    ELSE AddWithoutNoData(AddSingleValue(calculator, Head(values)), Tail(values))

\* MeanCalculator::add_with_no_data
AddWithNoData(calculator, values, no_data) ==
    IF values = <<>>
    THEN calculator
    ELSE IF PixelEq(Head(values), no_data)
    THEN AddWithNoData(calculator, Tail(values), no_data)
    ELSE AddWithNoData(AddSingleValue(calculator, Head(values)), Tail(values), no_data)

\* MeanCalculator::add
MeanCalculatorAdd(calculator, values, no_data) ==
    IF no_data # None
    THEN AddWithNoData(calculator, values, no_data.v)
    ELSE AddWithoutNoData(calculator, values)

RECURSIVE Ascending(_)
\* the keys of a BTreeMap in the order of its iteration
Ascending(keys) ==
    IF keys = {}
    THEN <<>>
    ELSE <<MinOf(keys)>> \o Ascending(keys \ {MinOf(keys)})

InitPlot ==
    /\ tile_stream \in TileStreams
    /\ tile_pos = 0
    /\ time_position \in TimePositions
    /\ means = <<>>
    /\ plot = NoPlot
    /\ plot_pc = "calculate_means"
    /\ ReprojIdle
    /\ StreamIdle
    /\ ExprIdle
    /\ NameIdle
    /\ ZipIdle
    /\ PointsIdle
    /\ OverviewsIdle
    /\ QueryIdle
    /\ InitIdle

\* one round of the loop of calculate_means, from tile_stream.next().await
CalculateMeans ==
    /\ plot_pc = "calculate_means"
    /\ IF tile_pos = Len(tile_stream)
       THEN \* the stream has ended: Ok(means)
            /\ plot_pc' = "generate_plot"
            /\ UNCHANGED <<tile_pos, means, plot>>
       ELSE LET tile == tile_stream[tile_pos + 1]
            IN  /\ tile_pos' = tile_pos + 1
                /\ IF tile.kind = "Err"
                   THEN \* let tile = tile?;
                        /\ plot_pc' = "done"
                        /\ plot' = [NoPlot EXCEPT !.kind = "Err"]
                        /\ UNCHANGED means
                   ELSE LET time == TimeIntervalProjection(tile.time, time_position)
                            mean == IF time \in DOMAIN means
                                    THEN means[time]
                                    ELSE DefaultMeanCalculator
                        IN  /\ means' =
                                   [t \in DOMAIN means \cup {time} |->
                                       IF t = time
                                       THEN MeanCalculatorAdd(mean, tile.data, tile.no_data_value)
                                       ELSE means[t]]
                            /\ UNCHANGED <<plot_pc, plot>>
    /\ UNCHANGED <<tile_stream, time_position, rvars, svars, evars, nvars, zvars, pvars, ovars, qvars, ivars>>

\* generate_plot on the means
GeneratePlot ==
    /\ plot_pc = "generate_plot"
    /\ plot_pc' = "done"
    /\ LET timestamps == Ascending(DOMAIN means)
       IN  plot' = [kind |-> "Ok",
                    timestamps |-> timestamps,
                    values |-> [k \in 1..Len(timestamps) |-> means[timestamps[k]].mean]]
    /\ UNCHANGED <<tile_stream, tile_pos, time_position, means,
                   rvars, svars, evars, nvars, zvars, pvars, ovars, qvars, ivars>>

NextPlot ==
    \/ CalculateMeans
    \/ GeneratePlot

SpecPlot == InitPlot /\ [][NextPlot]_vars


\* ------------------------------------------------- pro/datatypes.rs: Zip
\* the largest number of streams of a Zip, and of items of a stream
MaxZipStreams == 2
MaxItems == 3

\* the k-th item of stream i
Item(i, k) == [stream |-> i, k |-> k]
\* the input streams: stream i yields Item(i, 1), Item(i, 2), ...
ZipInputs ==
    UNION {{[i \in 1..n |-> [k \in 1..len[i] |-> Item(i, k)]] :
                len \in [1..n -> 0..MaxItems]} : n \in 1..MaxZipStreams}

RECURSIVE CheckStreamsNoSkip(_, _, _, _)
\* a loop that polls the streams that have a buffered value too
CheckStreamsNoSkip(streams_, values_, i, ready) ==
    IF i > Len(streams_)
    THEN [streams |-> streams_, values |-> values_, state |-> "Busy"]
    ELSE IF i \notin ready
    THEN CheckStreamsNoSkip(streams_, values_, i + 1, ready)
    ELSE IF streams_[i] # <<>>
    THEN CheckStreamsNoSkip([streams_ EXCEPT ![i] = Tail(@)],
                            [values_ EXCEPT ![i] = Some(Head(streams_[i]))],
                            i + 1, ready)
    ELSE [streams |-> streams_, values |-> values_, state |-> "Finished"]

RECURSIVE CheckStreams(_, _, _, _)
\* the for loop of Zip::check_streams from stream i on; ready: the streams
\* that answer a poll with Poll::Ready, the others answer Poll::Pending
CheckStreams(streams_, values_, i, ready) ==
    IF i > Len(streams_)
    THEN [streams |-> streams_, values |-> values_, state |-> "Busy"]
    ELSE IF values_[i] # None
    THEN \* already emitted value, do not poll!
         CheckStreams(streams_, values_, i + 1, ready)
    ELSE IF i \notin ready
    THEN CheckStreams(streams_, values_, i + 1, ready)
    ELSE IF streams_[i] # <<>>
    THEN CheckStreams([streams_ EXCEPT ![i] = Tail(@)],
                      [values_ EXCEPT ![i] = Some(Head(streams_[i]))],
                      i + 1, ready)
    ELSE \* first stream is done, so the whole `Zip` is done
         [streams |-> streams_, values |-> values_, state |-> "Finished"]

\* Zip::new on a non-empty vector of streams
InitZip ==
    /\ zip_inputs \in ZipInputs
    /\ zip_streams = zip_inputs
    /\ zip_values = <<>>
    /\ zip_state = "Idle"
    /\ zip_emitted = <<>>
    /\ zip_last = "none"
    /\ ReprojIdle
    /\ StreamIdle
    /\ ExprIdle
    /\ NameIdle
    /\ PlotIdle
    /\ PointsIdle
    /\ OverviewsIdle
    /\ QueryIdle
    /\ InitIdle

\* Zip::poll_next with check_streams and return_values
ZipPollNext(ready) ==
    /\ zip_state # "off"
    /\ IF zip_state = "Finished"
       THEN /\ zip_last' = "Ready(None)"
            /\ UNCHANGED <<zip_streams, zip_values, zip_state, zip_emitted>>
       ELSE LET resized == IF zip_values = <<>>
                           THEN [i \in 1..Len(zip_streams) |-> None]
                           ELSE zip_values
                checked == CheckStreams(zip_streams, resized, 1, ready)
            IN  /\ zip_streams' = checked.streams
                /\ zip_state' = checked.state
                /\ IF checked.state = "Finished"
                   THEN /\ zip_last' = "Ready(None)"
                        /\ zip_values' = checked.values
                        /\ UNCHANGED zip_emitted
                   ELSE IF \E i \in 1..Len(checked.values) : checked.values[i] = None
                   THEN /\ zip_last' = "Pending"
                        /\ zip_values' = checked.values
                        /\ UNCHANGED zip_emitted
                   ELSE \* values.drain(..).map(Option::unwrap).collect()
                        /\ zip_last' = "Ready(Some)"
                        /\ zip_values' = <<>>
                        /\ zip_emitted' =
                               Append(zip_emitted,
                                      [i \in 1..Len(checked.values) |-> checked.values[i].v])
    /\ UNCHANGED <<zip_inputs, rvars, svars, evars, nvars, mvars, pvars, ovars, qvars, ivars>>

NextZip == \E ready \in SUBSET (1..Len(zip_streams)) : ZipPollNext(ready)

SpecZip == InitZip /\ [][NextZip]_vars


\* ------------------------------------------ mock/source/mock_point_source.rs
\* the longest list of points, and the largest number of polls of a stream
MaxPoints == 3
MaxPolls == 6

\* std::mem::size_of::<Coordinate2D>(): two f64
SizeOfCoordinate2D == 16

Coordinates == {"p", "q"}
PointLists == UNION {[1..n -> Coordinates] : n \in 0..MaxPoints}
ChunkByteSizes == {0, 8, 16, 24, 32, 40}

\* points.chunks(chunk_size).skip(index).take(1).flatten() for a chunk size
\* above zero
Chunk(points_, chunk_size_, index_) ==
    SubSeq(points_, index_ * chunk_size_ + 1,
           IF (index_ + 1) * chunk_size_ < Len(points_)
           THEN (index_ + 1) * chunk_size_
           ELSE Len(points_))

InitPoints ==
    /\ points \in PointLists
    /\ chunk_byte_size \in ChunkByteSizes
    /\ chunk_size = 0
    /\ index = 0
    /\ point_chunks = <<>>
    /\ point_pc = "new"
    /\ ReprojIdle
    /\ StreamIdle
    /\ ExprIdle
    /\ NameIdle
    /\ PlotIdle
    /\ ZipIdle
    /\ OverviewsIdle
    /\ QueryIdle
    /\ InitIdle

\* MockPointSourceImpl::query
PointQuery ==
    /\ point_pc = "new"
    /\ point_pc' = "stream"
    /\ chunk_size' = chunk_byte_size \div SizeOfCoordinate2D
    /\ index' = 0
    /\ UNCHANGED <<points, chunk_byte_size, point_chunks,
                   rvars, svars, evars, nvars, mvars, zvars, ovars, qvars, ivars>>

\* MockPointSourceResultStream::poll_next
PointPollNext ==
    /\ point_pc \in {"stream", "Ready(Some)", "Ready(None)"}
    /\ index < MaxPolls
    /\ IF chunk_size = 0
       THEN \* slice::chunks panics for a chunk size of zero
            /\ point_pc' = "panic"
            /\ UNCHANGED <<index, point_chunks>>
       ELSE LET coordinates == Chunk(points, chunk_size, index)
            IN  /\ index' = index + 1
                /\ IF coordinates = <<>>
                   THEN /\ point_pc' = "Ready(None)"
                        /\ UNCHANGED point_chunks
                   ELSE /\ point_pc' = "Ready(Some)"
                        /\ point_chunks' =
                               Append(point_chunks,
                                      [kind |-> "Ok", coordinates |-> coordinates])
    /\ UNCHANGED <<points, chunk_byte_size, chunk_size,
                   rvars, svars, evars, nvars, mvars, zvars, ovars, qvars, ivars>>

NextPoints ==
    \/ PointQuery
    \/ PointPollNext

SpecPoints == InitPoints /\ [][NextPoints]_vars


\* ----------------------------- services/datasets/external/netcdfcf/overviews.rs
\* One overview folder (out_folder_path) with its .in_progress flag file, its
\* overview files and the rows of the overviews table, and concurrent calls of
\* create_overviews and remove_overviews on it.  Every await and every file
\* system call of the two functions is a step of its own.
nonovars == <<rvars, svars, evars, nvars, mvars, zvars, pvars, qvars, ivars>>

\* InProgressFlag::is_in_progress
IsInProgress(folder_is_dir, flag_file_exists) ==
    IF ~folder_is_dir THEN FALSE ELSE flag_file_exists

InitOverviews ==
    /\ OverviewsIdle
    /\ ReprojIdle
    /\ StreamIdle
    /\ ExprIdle
    /\ NameIdle
    /\ PlotIdle
    /\ ZipIdle
    /\ PointsIdle
    /\ QueryIdle
    /\ InitIdle

\* a call of create_overviews: the path computations
CreateOverviews(p) ==
    /\ run_pc[p] = "done"
    /\ run_op' = [run_op EXCEPT ![p] = "create"]
    /\ force' = [force EXCEPT ![p] = FALSE]
    /\ run_pc' = [run_pc EXCEPT ![p] = "exists"]
    /\ run_result' = [run_result EXCEPT ![p] = "none"]
    /\ created' = [created EXCEPT ![p] = FALSE]
    /\ observed' = [observed EXCEPT ![p] = "none"]
    /\ deleted' = [deleted EXCEPT ![p] = {}]
    /\ calls' = calls \cup {"create"}
    /\ UNCHANGED <<fsvars, nonovars>>

\* create_overviews: if !out_folder_path.exists()
CreateExists(p) ==
    /\ run_pc[p] = "exists"
    /\ run_pc' = [run_pc EXCEPT ![p] = IF folder_exists THEN "is_dir" ELSE "create_dir_all"]
    /\ UNCHANGED <<fsvars, run_op, force, run_result, created, observed, deleted, calls,
                   nonovars>>

\* create_overviews: fs::create_dir_all(out_folder_path)
CreateDirAll(p) ==
    /\ run_pc[p] = "create_dir_all"
    /\ folder_exists' = TRUE
    /\ run_pc' = [run_pc EXCEPT ![p] = "is_dir"]
    /\ UNCHANGED <<flag_exists, folder_files, db_rows,
                   run_op, force, run_result, created, observed, deleted, calls,
                   nonovars>>

\* InProgressFlag::create: if !folder.is_dir() { return Err(InvalidDirectory) }
FlagIsDir(p) ==
    /\ run_pc[p] = "is_dir"
    /\ IF folder_exists
       THEN /\ run_pc' = [run_pc EXCEPT ![p] = "open"]
            /\ UNCHANGED run_result
       ELSE /\ run_pc' = [run_pc EXCEPT ![p] = "done"]
            /\ run_result' = [run_result EXCEPT ![p] = "InvalidDirectory"]
    /\ UNCHANGED <<fsvars, run_op, force, created, observed, deleted, calls, nonovars>>

\* InProgressFlag::create: `this` is built, then
\* OpenOptions::new().write(true).create_new(true).open(&this.path)?; the `?`
\* leaves the function with `this` alive, so that its Drop runs
FlagOpen(p) ==
    /\ run_pc[p] = "open"
    /\ IF folder_exists /\ ~flag_exists
       THEN /\ flag_exists' = TRUE
            /\ created' = [created EXCEPT ![p] = TRUE]
            /\ run_pc' = [run_pc EXCEPT ![p] = "index"]
            /\ UNCHANGED run_result
       ELSE /\ run_result' = [run_result EXCEPT ![p] = "CannotCreateInProgressFlag"]
            /\ run_pc' = [run_pc EXCEPT ![p] = "drop"]
            /\ UNCHANGED <<flag_exists, created>>
    /\ UNCHANGED <<folder_exists, folder_files, db_rows,
                   run_op, force, observed, deleted, calls, nonovars>>

\* create_overviews: the spawn_blocking closure with the index_subdataset loop.
\* index_subdataset skips when its output exists, and otherwise writes below
\* the folder after fs::create_dir_all(entity_directory)
IndexSubdatasets(p) ==
    /\ run_pc[p] = "index"
    /\ \E outcome \in {"Created", "Skipped", "Err"} :
        /\ outcome = "Skipped" => folder_files
        /\ outcome = "Created" => ~folder_files
        /\ IF outcome = "Created"
           THEN /\ folder_exists' = TRUE
                /\ folder_files' = TRUE
                /\ run_pc' = [run_pc EXCEPT ![p] = "store"]
                /\ UNCHANGED run_result
           ELSE /\ run_result' = [run_result EXCEPT ![p] = outcome]
                /\ run_pc' = [run_pc EXCEPT ![p] = "drop"]
                /\ UNCHANGED <<folder_exists, folder_files>>
    /\ UNCHANGED <<flag_exists, db_rows,
                   run_op, force, created, observed, deleted, calls, nonovars>>

\* create_overviews: match store_db_metadata(...).await
StoreDbMetadata(p) ==
    /\ run_pc[p] = "store"
    /\ \E outcome \in {"Created", "Err"} :
        IF outcome = "Created"
        THEN /\ db_rows' = TRUE
             /\ run_pc' = [run_pc EXCEPT ![p] = "remove"]
             /\ UNCHANGED run_result
        ELSE /\ run_result' = [run_result EXCEPT ![p] = "Err"]
             /\ run_pc' = [run_pc EXCEPT ![p] = "drop"]
             /\ UNCHANGED db_rows
    /\ UNCHANGED <<folder_exists, flag_exists, folder_files,
                   run_op, force, created, observed, deleted, calls, nonovars>>

\* create_overviews: in_progress_flag.remove()?; Ok(Created).
\* InProgressFlag::remove takes self, which is dropped when it returns
FlagRemove(p) ==
    /\ run_pc[p] = "remove"
    /\ flag_exists' = FALSE
    /\ run_result' = [run_result EXCEPT ![p] =
                         IF flag_exists THEN "Created" ELSE "CannotRemoveInProgressFlag"]
    /\ run_pc' = [run_pc EXCEPT ![p] = "drop"]
    /\ UNCHANGED <<folder_exists, folder_files, db_rows,
                   run_op, force, created, observed, deleted, calls, nonovars>>

\* a Drop that leaves the file where it is
DropForgets(p) ==
    /\ run_pc[p] = "drop"
    /\ run_pc' = [run_pc EXCEPT ![p] = "done"]
    /\ UNCHANGED <<fsvars, run_op, force, run_result, created, observed, deleted, calls,
                   nonovars>>

\* Drop for InProgressFlag: if !self.path.exists() { return; }
Drop(p) ==
    /\ run_pc[p] = "drop"
    /\ run_pc' = [run_pc EXCEPT ![p] = IF flag_exists THEN "drop_remove" ELSE "done"]
    /\ UNCHANGED <<fsvars, run_op, force, run_result, created, observed, deleted, calls,
                   nonovars>>

\* Drop for InProgressFlag: fs::remove_file(&self.path), an Err is logged
DropRemoveFile(p) ==
    /\ run_pc[p] = "drop_remove"
    /\ flag_exists' = FALSE
    /\ run_pc' = [run_pc EXCEPT ![p] = "done"]
    /\ UNCHANGED <<folder_exists, folder_files, db_rows,
                   run_op, force, run_result, created, observed, deleted, calls,
                   nonovars>>

\* a call of remove_overviews: the path computation
RemoveOverviews(p, force_) ==
    /\ run_pc[p] = "done"
    /\ run_op' = [run_op EXCEPT ![p] = "remove"]
    /\ force' = [force EXCEPT ![p] = force_]
    /\ run_pc' = [run_pc EXCEPT ![p] = "try_exists"]
    /\ run_result' = [run_result EXCEPT ![p] = "none"]
    /\ created' = [created EXCEPT ![p] = FALSE]
    /\ observed' = [observed EXCEPT ![p] = "none"]
    /\ deleted' = [deleted EXCEPT ![p] = {}]
    /\ calls' = calls \cup {IF force_ THEN "force" ELSE "remove"}
    /\ UNCHANGED <<fsvars, nonovars>>

\* remove_overviews: tokio::fs::try_exists, if !out_folder_exists { return Ok(()) }
RemoveTryExists(p) ==
    /\ run_pc[p] = "try_exists"
    /\ IF ~folder_exists
       THEN /\ run_pc' = [run_pc EXCEPT ![p] = "done"]
            /\ run_result' = [run_result EXCEPT ![p] = "Ok"]
            /\ observed' = [observed EXCEPT ![p] = "absent"]
       ELSE /\ run_pc' = [run_pc EXCEPT ![p] =
                             IF force[p] THEN "delete_rows" ELSE "is_in_progress"]
            /\ observed' = [observed EXCEPT ![p] =
                               IF force[p] THEN "forced" ELSE "none"]
            /\ UNCHANGED run_result
    /\ UNCHANGED <<fsvars, run_op, force, created, deleted, calls, nonovars>>

\* a check that lets flagged folders pass
RemoveIgnoresFlag(p) ==
    /\ run_pc[p] = "is_in_progress"
    /\ run_pc' = [run_pc EXCEPT ![p] = "delete_rows"]
    /\ observed' = [observed EXCEPT ![p] =
                       IF IsInProgress(folder_exists, flag_exists)
                       THEN "flag" ELSE "no_flag"]
    /\ UNCHANGED <<fsvars, run_op, force, run_result, created, deleted, calls, nonovars>>

\* remove_overviews: if !force && InProgressFlag::is_in_progress(..).await?
RemoveCheckInProgress(p) ==
    /\ run_pc[p] = "is_in_progress"
    /\ IF IsInProgress(folder_exists, flag_exists)
       THEN /\ run_pc' = [run_pc EXCEPT ![p] = "done"]
            /\ run_result' = [run_result EXCEPT ![p] =
                                 "CannotRemoveOverviewsWhileCreationIsInProgress"]
            /\ observed' = [observed EXCEPT ![p] = "flag"]
       ELSE /\ run_pc' = [run_pc EXCEPT ![p] = "delete_rows"]
            /\ observed' = [observed EXCEPT ![p] = "no_flag"]
            /\ UNCHANGED run_result
    /\ UNCHANGED <<fsvars, run_op, force, created, deleted, calls, nonovars>>

\* remove_overviews: DELETE FROM overviews WHERE file_name = $1
RemoveDeleteRows(p) ==
    /\ run_pc[p] = "delete_rows"
    /\ db_rows' = FALSE
    /\ deleted' = [deleted EXCEPT ![p] = @ \cup {"rows"}]
    /\ run_pc' = [run_pc EXCEPT ![p] = "remove_dir_all"]
    /\ UNCHANGED <<folder_exists, flag_exists, folder_files,
                   run_op, force, run_result, created, observed, calls, nonovars>>

\* remove_overviews: tokio::fs::remove_dir_all(&out_folder_path), Ok(())
RemoveDirAll(p) ==
    /\ run_pc[p] = "remove_dir_all"
    /\ IF folder_exists
       THEN /\ folder_exists' = FALSE
            /\ flag_exists' = FALSE
            /\ folder_files' = FALSE
            /\ deleted' = [deleted EXCEPT ![p] = @ \cup {"folder"}]
            /\ run_result' = [run_result EXCEPT ![p] = "Ok"]
       ELSE /\ run_result' = [run_result EXCEPT ![p] = "CannotRemoveOverviews"]
            /\ UNCHANGED <<folder_exists, flag_exists, folder_files, deleted>>
    /\ run_pc' = [run_pc EXCEPT ![p] = "done"]
    /\ UNCHANGED <<db_rows, run_op, force, created, observed, calls, nonovars>>

NextOverviews ==
    \E p \in Runs :
        \/ CreateOverviews(p)
        \/ CreateExists(p)
        \/ CreateDirAll(p)
        \/ FlagIsDir(p)
        \/ FlagOpen(p)
        \/ IndexSubdatasets(p)
        \/ StoreDbMetadata(p)
        \/ FlagRemove(p)
        \/ Drop(p)
        \/ DropRemoveFile(p)
        \/ \E force_ \in BOOLEAN : RemoveOverviews(p, force_)
        \/ RemoveTryExists(p)
        \/ RemoveCheckInProgress(p)
        \/ RemoveDeleteRows(p)
        \/ RemoveDirAll(p)

SpecOverviews == InitOverviews /\ [][NextOverviews]_vars


\* ------------------------------------------------------------- properties
\* S_i: the first global band of source i
SourceStart(i) == SumSeq(Take(bands_per_source, i))
\* the global bands of source i: [S_i, S_i + B[i])
SourceBandSet(i) == SourceStart(i)..(SourceStart(i) + bands_per_source[i + 1] - 1)
\* the global bands the running query names
QueryBandSet ==
    IF query_bands.kind = "Single"
    THEN {query_bands.b}
    ELSE query_bands.start..(query_bands.end - 1)
SourceIndices == 0..(Len(bands_per_source) - 1)
\* the sources raster_query issued a sub-query to
IncludedSources ==
    {source_stream_futures[k].source : k \in 1..Len(source_stream_futures)}
FutureOf(i) ==
    CHOOSE k \in 1..Len(source_stream_futures) : source_stream_futures[k].source = i
\* the local selection of the k-th sub-query, lifted to global band indices
Lifted(k) ==
    LET f == source_stream_futures[k]
        s == SourceStart(f.source)
    IN  IF f.bands.kind = "Single"
        THEN {s + f.bands.b}
        ELSE {s + x : x \in f.bands.start..(f.bands.end - 1)}
Mapped == pc \notin {"idle", "off"}
Returned == pc \in {"returned_err", "streaming", "finished"}

\* C1: for a Range query, source i is mapped to Some iff its global band
\* interval meets the query interval, and then the local range [s, e) is
\* that intersection shifted by -S_i, with 0 <= s < e <= B[i]
C1_RangeIsIntersection ==
    (Mapped /\ query_bands.kind = "Range") =>
        \A i \in SourceIndices :
            LET inter == SourceBandSet(i) \cap QueryBandSet
            IN  /\ (i \in IncludedSources) <=> (inter # {})
                /\ (i \in IncludedSources) =>
                       LET m == source_stream_futures[FutureOf(i)].bands
                       IN  /\ m.kind = "Range"
                           /\ 0 <= m.start /\ m.start < m.end
                           /\ m.end <= bands_per_source[i + 1]
                           /\ Lifted(FutureOf(i)) = inter

\* C2: the local selections of all sources, lifted to global band indices,
\* are pairwise disjoint and their union is the query's bands within
\* [0, sum(B))
C2_MappingTotality ==
    Mapped =>
        /\ \A k, l \in 1..Len(source_stream_futures) :
               k # l => Lifted(k) \cap Lifted(l) = {}
        /\ UNION {Lifted(k) : k \in 1..Len(source_stream_futures)}
               = QueryBandSet \cap (0..(SumSeq(bands_per_source) - 1))

\* C2, witness: a Range query that two sources answer, one of them with a part of its bands
C2_Witness ==
    /\ pc = "joining"
    /\ query_bands.kind = "Range"
    /\ Len(source_stream_futures) >= 2
    /\ \A k \in 1..Len(source_stream_futures) :
           Count(source_stream_futures[k].bands) >= 1
    /\ \E k \in 1..Len(source_stream_futures) :
           LET f == source_stream_futures[k]
           IN  /\ f.bands.start > 0
               /\ Count(f.bands) < bands_per_source[f.source + 1]

\* C3: for a Single(b) query exactly the sources with S_i <= b < S_i + B[i]
\* are queried, with Single(b - S_i); that is at most one source, and every
\* tile of the output comes from it
C3_SingleSelectsOneSource ==
    (Mapped /\ query_bands.kind = "Single") =>
        LET b == query_bands.b
        IN  /\ \A i \in SourceIndices :
                   /\ (i \in IncludedSources) <=>
                          (SourceStart(i) <= b /\ b < SourceStart(i) + bands_per_source[i + 1])
                   /\ (i \in IncludedSources) =>
                          source_stream_futures[FutureOf(i)].bands
                              = Single(b - SourceStart(i))
            /\ Len(source_stream_futures) <= 1
            /\ \A n \in 1..Len(output) :
                   /\ b \in SourceBandSet(output[n].source_tile.data[1])
                   /\ output[n].source_tile.data[2]
                          = b - SourceStart(output[n].source_tile.data[1])

\* C3, witness: Single(b) answered by a source other than source 0, all its tiles delivered
C3_Witness ==
    /\ pc = "finished"
    /\ query_bands.kind = "Single"
    /\ Len(bands_per_source) >= 2
    /\ Len(output) = NumGroups
    /\ output[1].source_tile.data[1] >= 1

\* C4: a sub-query is issued to source i only if the query names at least
\* one band of source i; no stream and no band count entry otherwise
C4_NoSubQueryWithoutBands ==
    Mapped =>
        /\ Len(selected_bands_per_source) = Len(source_stream_futures)
        /\ \A k \in 1..Len(source_stream_futures) :
               /\ SourceBandSet(source_stream_futures[k].source) \cap QueryBandSet # {}
               /\ selected_bands_per_source[k] >= 1

\* C5: a tile of the output that comes from the k-th included source carries
\* band = (sum of the selected band counts of the included sources before
\* it) + (its band index in the sub-query's result); time, tile position
\* and pixel data are unchanged
C5_BandRenumbering ==
    \A n \in 1..Len(output) :
        LET e == output[n]
        IN  /\ e.tile.band = SumSeq(Take(selected_bands_per_source, e.stream))
                                 + e.source_tile.band
            /\ e.tile.time = e.source_tile.time
            /\ e.tile.tile_position = e.source_tile.tile_position
            /\ e.tile.data = e.source_tile.data
            /\ e.source_tile.data[1] = source_stream_futures[e.stream + 1].source

\* C5, witness: a tile of a later source whose band was renumbered, behind a source of
\* which only a part of the bands is selected
C5_Witness ==
    /\ Len(output) >= 1
    /\ \E n \in 1..Len(output) :
           /\ output[n].stream >= 1
           /\ output[n].tile.band # output[n].source_tile.band
           /\ selected_bands_per_source[1]
                  < bands_per_source[source_stream_futures[1].source + 1]

\* the source that holds global band gb
SourceOfBand(gb) == CHOOSE i \in SourceIndices : gb \in SourceBandSet(i)
\* the n-th tile of a full stack: band fastest, then (time, tile position)
StackedTile(n) ==
    LET total == SumSeq(bands_per_source)
        g == ((n - 1) \div total) + 1
        gb == (n - 1) % total
        i == SourceOfBand(gb)
    IN  [time |-> TimeOf(g), tile_position |-> TilePositionOf(g), band |-> gb,
         data |-> <<i, gb - SourceStart(i), g>>]
CoversAllSources ==
    /\ query_bands.kind = "Range"
    /\ query_bands.start = 0
    /\ query_bands.end >= SumSeq(bands_per_source)

\* C6: for a Range query covering all sources the output is grouped by
\* (time step, tile position) in the order the sources emit them, and in
\* each group come all bands of source 0, then all bands of source 1, ...
C6_StackingOrder ==
    (pc \in {"streaming", "finished"} /\ CoversAllSources) =>
        /\ Len(output) <= NumGroups * SumSeq(bands_per_source)
        /\ \A n \in 1..Len(output) : output[n].tile = StackedTile(n)
        /\ pc = "finished" => Len(output) = NumGroups * SumSeq(bands_per_source)

\* C6, witness: a finished stack of three sources of which one has several bands
C6_Witness ==
    /\ pc = "finished"
    /\ CoversAllSources
    /\ Len(bands_per_source) >= 3
    /\ \E i \in SourceIndices : bands_per_source[i + 1] >= 2
    /\ Len(output) = NumGroups * SumSeq(bands_per_source)

\* the (time step, tile position) pair of the n-th tile of the output
GroupOf(n) == output[n].source_tile.data[3]

\* C7 as claimed: every tile of sub-stream i precedes every tile of a later
\* sub-stream
C7_Concatenates ==
    \A p, q \in 1..Len(output) :
        p < q => output[p].stream <= output[q].stream

\* C7 as amended: the output goes through the (time step, tile position)
\* pairs in order, and within one pair every tile of sub-stream i precedes
\* every tile of a later sub-stream
C7_ConcatenatesWithinGroup ==
    \A p, q \in 1..Len(output) :
        p < q =>
            /\ GroupOf(p) <= GroupOf(q)
            /\ GroupOf(p) = GroupOf(q) => output[p].stream <= output[q].stream

\* C7, witness: a tile of the first sub-stream behind a tile of the second one
C7_Witness ==
    /\ pc = "finished"
    /\ \E p, q \in 1..Len(output) :
           /\ p < q
           /\ output[p].stream = 1
           /\ output[q].stream = 0
           /\ GroupOf(p) < GroupOf(q)

\* every sub-query asks for at least one band
EverySubQueryHasBands ==
    \A k \in 1..Len(source_stream_futures) :
        Count(source_stream_futures[k].bands) >= 1

SomeSubQueryFailed ==
    \E k \in 1..Len(source_stream_futures) : source_stream_futures[k].state = "err"

\* C9: if the stream of one sub-query cannot be created, raster_query
\* returns an error: no adapter, no output, whatever the other sub-queries
\* returned; without a failure it returns the adapter over all streams
C9_FailFast ==
    Returned =>
        /\ SomeSubQueryFailed =>
               /\ pc = "returned_err"
               /\ result.kind = "Err"
               /\ ~adapter.created
               /\ output = <<>>
        /\ ~SomeSubQueryFailed =>
               /\ result.kind = "Ok"
               /\ adapter.created
               /\ Len(adapter.streams) = Len(source_stream_futures)

\* C9, witness: an error returned although another sub-query delivered its stream
C9_Witness ==
    /\ pc = "returned_err"
    /\ EverySubQueryHasBands
    /\ \E k, l \in 1..Len(source_stream_futures) :
           /\ source_stream_futures[k].state = "ok"
           /\ source_stream_futures[l].state = "err"

\* C10: the error returned is the one that occurred first, and no sibling
\* sub-query is driven after a failure (stated for queries whose sub-queries
\* all ask for at least one band)
C10_FirstFailureCancelsSiblings ==
    EverySubQueryHasBands =>
        /\ ~driven_after_failure
        /\ pc = "returned_err" =>
               result.source = source_stream_futures[first_failed].source

\* C8: for a non-empty list of sources whose initialization succeeds,
\* _initialize returns a result descriptor with the sum of the sources' band
\* counts and the data type, spatial reference and measurement of source 0
C8_ResultDescriptor ==
    (init_pc = "done" /\ Len(sources) >= 1) =>
        /\ initialized.kind \in {"Ok", "Err"}
        /\ initialized.kind = "Ok" =>
               /\ initialized.result_descriptor.bands
                      = SumSeq([k \in 1..Len(sources) |-> sources[k].bands])
               /\ initialized.result_descriptor.data_type = sources[1].data_type
               /\ initialized.result_descriptor.spatial_reference
                      = sources[1].spatial_reference
               /\ initialized.result_descriptor.measurement = sources[1].measurement

\* C8, witness: band counts [2, 2, 1] give 5 bands; the later sources differ from source 0
C8_Witness ==
    /\ init_pc = "done"
    /\ initialized.kind = "Ok"
    /\ Len(sources) = 3
    /\ initialized.bands_per_source = <<2, 2, 1>>
    /\ initialized.result_descriptor.bands = 5
    /\ sources[2].data_type # sources[1].data_type
    /\ sources[3].spatial_reference # sources[1].spatial_reference
    /\ sources[2].measurement # sources[1].measurement

\* C11: a Single(b) query whose band lies in no source's range issues no
\* sub-query; raster_query returns Ok, never an error, and the output stream
\* yields no tile
C11_SingleOutsideIsEmpty ==
    (Mapped /\ query_bands.kind = "Single"
        /\ \A i \in SourceIndices : query_bands.b \notin SourceBandSet(i)) =>
        /\ source_stream_futures = <<>>
        /\ selected_bands_per_source = <<>>
        /\ pc # "returned_err"
        /\ Returned => (result.kind = "Ok" /\ adapter.streams = <<>>)
        /\ output = <<>>

\* C11, witness: Single(b) with b past the last band, answered and the stream read to its end
C11_Witness ==
    /\ pc = "finished"
    /\ query_bands.kind = "Single"
    /\ query_bands.b >= SumSeq(bands_per_source)
    /\ result.kind = "Ok"
    /\ output = <<>>

\* C12: _initialize on sources that do not all have the same data type fails
\* with a validation error, so that query_processor never runs into its
\* "all inputs should have the same datatype" expectation
C12_MixedDataTypesRejected ==
    /\ (init_pc # "new" /\ \E k \in 1..Len(sources) :
                               sources[k].data_type # sources[1].data_type)
           => initialized.kind = "Err"
    /\ processor.kind # "panic"

\* C13: Reprojection::initialize fails with InvalidNumberOfVectorInputs
\* (expected 1..2) unless there is exactly one vector source, and then with
\* InvalidNumberOfRasterInputs (expected 0..1) unless there is no raster
\* source; the vector check comes first, and on either failure no child
\* operator has been initialized
C13_InputArity ==
    reproj_pc = "done" =>
        LET v == Len(vector_sources)
            r == Len(raster_sources)
            out == reproj_initialized
        IN  /\ v # 1 =>
                   /\ out.kind = "Err"
                   /\ out.error = "InvalidNumberOfVectorInputs"
                   /\ out.expected = [start |-> 1, end |-> 2]
                   /\ out.found = v
                   /\ children_initialized = {}
            /\ (v = 1 /\ r # 0) =>
                   /\ out.kind = "Err"
                   /\ out.error = "InvalidNumberOfRasterInputs"
                   /\ out.expected = [start |-> 0, end |-> 1]
                   /\ out.found = r
                   /\ children_initialized = {}
            /\ (v = 1 /\ r = 0) =>
                   out.error \notin {"InvalidNumberOfVectorInputs",
                                     "InvalidNumberOfRasterInputs"}

\* C13, witness: two vector sources and a raster source: both checks would fail, the vector error is returned
C13_Witness ==
    /\ reproj_pc = "done"
    /\ Len(vector_sources) = 2
    /\ Len(raster_sources) = 1
    /\ reproj_initialized.error = "InvalidNumberOfVectorInputs"
    /\ reproj_initialized.found = 2

\* C14: when reprojecting a collection of the source stream fails, the output
\* stream yields an error element at that position and ends; the failure is
\* never a runtime fault
C14_ReprojectionFailureIsErrorElement ==
    \A k \in 1..source_pos :
        (source_stream[k].kind = "Ok" /\ ~source_stream[k].reprojectable) =>
            /\ stream_pc # "panicked"
            /\ Len(reproj_output) >= k
            /\ reproj_output[k].kind = "Err"

C16_EmptyNameRejected ==
    expr_pc \in {"new", "invoked"} =>
        /\ (expr_name = "") <=> (expression_ast.kind = "Err")
        /\ expression_ast.kind = "Err" => expression_ast.error = "EmptyExpressionName"
        /\ expr_name # "" =>
               /\ expression_ast.kind = "Ok"
               /\ expression_ast.name = expr_name
               /\ expression_ast.parameters = parameters
               /\ expression_ast.out_type = out_type
               /\ expression_ast.functions = functions
               /\ expression_ast.root = root.node

\* C16, witness: new was called with the empty name and a root that is a branch, and failed
C16_Witness ==
    /\ expr_pc = "new"
    /\ expr_name = ""
    /\ root.node.kind = "Branch"
    /\ expression_ast.error = "EmptyExpressionName"

RECURSIVE NodesOf(_), NodesOfBool(_)
\* the node itself and all nodes below it
NodesOf(node) ==
    {node} \cup
    CASE node.kind \in {"Constant", "NoData", "Variable"} -> {}
      [] node.kind = "Function" -> UNION {NodesOf(node.args[k]) : k \in 1..Len(node.args)}
      [] node.kind = "Branch" ->
             UNION {NodesOf(node.condition_branches[k].body)
                        \cup NodesOfBool(node.condition_branches[k].condition) :
                    k \in 1..Len(node.condition_branches)}
                 \cup NodesOf(node.else_branch)
      [] node.kind = "AssignmentsAndExpression" ->
             UNION {NodesOf(node.assignments[k].expression) : k \in 1..Len(node.assignments)}
                 \cup NodesOf(node.expression)
NodesOfBool(boolean) ==
    CASE boolean.kind = "Constant" -> {}
      [] boolean.kind = "Comparison" -> NodesOf(boolean.left) \cup NodesOf(boolean.right)
      [] boolean.kind = "Operation" -> NodesOfBool(boolean.left) \cup NodesOfBool(boolean.right)
\* the data types of the bodies of a Branch node
BodyTypes(branch) ==
    {DataTypeOf(branch.condition_branches[k].body) : k \in 1..Len(branch.condition_branches)}
        \cup {DataTypeOf(branch.else_branch)}
BranchesOf(node) == {n \in NodesOf(node) : n.kind = "Branch"}

\* C17: a tree with a Branch whose bodies do not all have the same data type
\* is rejected with a type mismatch error and never becomes an ExpressionAst
\* nor code; in a root that was built, the data type of every Branch is the
\* data type of each of its bodies
C17_BranchTypesChecked ==
    expr_pc # "parse" =>
        /\ (\E branch \in BranchesOf(parse_tree) : Cardinality(BodyTypes(branch)) > 1) =>
               /\ root.kind = "Err"
               /\ root.error = "BranchTypeMismatch"
               /\ expression_ast = NoExpressionAst
               /\ expr_pc = "parsed"
        /\ root.kind = "Ok" =>
               \A branch \in BranchesOf(root.node) : BodyTypes(branch) = {DataTypeOf(branch)}

\* C17, witness: a number in the if body and a geometry in the else body, rejected
C17_Witness ==
    /\ expr_pc = "parsed"
    /\ parse_tree = Branch(<<ConditionBranch(BoolConstant(TRUE), Constant(1))>>, VarG)
    /\ root.kind = "Err"

\* the parameters a node refers to
VariablesOf(node) == {n.name : n \in {m \in NodesOf(node) : m.kind = "Variable"}}

\* C18: a call of the generated function returns Some or None for every
\* syntax tree and all inputs, and returns None whenever the expression uses
\* a variable whose input is None
C18_NoneVariableGivesNone ==
    expr_pc = "invoked" =>
        /\ value.kind \in {"Some", "None"}
        /\ (\E v \in VariablesOf(expression_ast.root) \cap DOMAIN arguments :
                arguments[v] = None) => value = None

\* C18, amended: a call of the generated function returns Some or None for
\* every syntax tree and all inputs; a variable evaluates to its input, a
\* constant to Some, no data to None, a function call to None exactly if one
\* of its arguments evaluates to None (a + b is Some(5) for 2 and 3), and a
\* branch to the value of one of its bodies, the first one if its condition
\* is true, whatever the other inputs are
C18_TotalAndNonePropagates ==
    expr_pc = "invoked" =>
        LET node == expression_ast.root
            ValueOf(n) == RunRust(Lower(n), arguments)
        IN  /\ value.kind \in {"Some", "None"}
            /\ node.kind = "Variable" => value = arguments[node.name]
            /\ node.kind = "Constant" => value = Some(node.n)
            /\ node.kind = "NoData" => value = None
            /\ node.kind = "Function" =>
                   /\ (value = None) <=>
                          (\E k \in 1..Len(node.args) : ValueOf(node.args[k]) = None)
                   /\ (node.args = <<VarA, VarB>> /\ arguments.a = Some(2)
                           /\ arguments.b = Some(3)) => value = Some(5)
            /\ node.kind = "Branch" =>
                   /\ value \in {ValueOf(node.condition_branches[k].body) :
                                     k \in 1..Len(node.condition_branches)}
                                \cup {ValueOf(node.else_branch)}
                   /\ node.condition_branches[1].condition = BoolConstant(TRUE) =>
                          value = ValueOf(node.condition_branches[1].body)

\* C18, witness: a + b called with a = None and b = 3 returned None
C18_Witness ==
    /\ expr_pc = "invoked"
    /\ expression_ast.root = Function(Add, <<VarA, VarB>>)
    /\ arguments.a = None
    /\ arguments.b = Some(3)
    /\ value = None

\* keywords of the generated code's language that the model's characters spell
ReservedWords == {<<"i", "f">>, <<"f", "n">>, <<"i", "n">>}

\* C19: a name accepted by is_allowed_variable_name has only ASCII
\* alphanumeric characters and underscores, does not start with the prefix
\* of the registry functions and is not a reserved word of the generated code
C19_AllowedNamesAreSafe ==
    (name_pc = "done" /\ var_allowed) =>
        /\ \A k \in 1..Len(var_name) : var_name[k] \in AsciiAlphanumerics \cup {"_"}
        /\ ~(Len(var_name) >= 2 /\ var_name[1] = "f" /\ var_name[2] = "_")
        /\ var_name \notin ReservedWords

\* the instant the claim projects a tile's time interval onto
ProjectedInstant(tile) ==
    CASE time_position = "Start" -> tile.time.start
      [] time_position = "End" -> tile.time.end
      [] time_position = "Center" ->
             CHOOSE m \in tile.time.start..tile.time.end :
                 2 * m <= tile.time.start + tile.time.end
                     /\ tile.time.start + tile.time.end < 2 * (m + 1)
\* the values of a tile's pixels that are neither no data nor NaN
ValidValues(tile) ==
    LET valid == SelectSeq(tile.data,
                           LAMBDA p : /\ ~p.nan
                                      /\ ~(tile.no_data_value # None
                                               /\ p.v = tile.no_data_value.v.v))
    IN  [k \in 1..Len(valid) |-> valid[k].v]
RECURSIVE ValuesAt(_, _)
\* the valid values of the first n tiles of the stream that project onto instant t
ValuesAt(t, n) ==
    IF n = 0
    THEN <<>>
    ELSE ValuesAt(t, n - 1)
             \o (IF ProjectedInstant(tile_stream[n]) = t
                 THEN ValidValues(tile_stream[n])
                 ELSE <<>>)

\* C20: the plot has exactly one data point per distinct projected instant of
\* the tiles, in strictly ascending order of time, and its value is the
\* arithmetic mean of the pixels, no data and NaN left out, of all tiles that
\* project onto the instant; the projection is the start, the end or
\* floor((start + end) / 2)
C20_MeanPerInstant ==
    (plot_pc = "done" /\ plot.kind = "Ok") =>
        LET instants == {ProjectedInstant(tile_stream[k]) : k \in 1..Len(tile_stream)}
        IN  /\ Len(plot.timestamps) = Cardinality(instants)
            /\ Len(plot.values) = Len(plot.timestamps)
            /\ {plot.timestamps[k] : k \in 1..Len(plot.timestamps)} = instants
            /\ \A k \in 1..(Len(plot.timestamps) - 1) :
                   plot.timestamps[k] < plot.timestamps[k + 1]
            /\ \A k \in 1..Len(plot.timestamps) :
                   LET pixels == ValuesAt(plot.timestamps[k], Len(tile_stream))
                   IN  Len(pixels) > 0 =>
                           plot.values[k].num * Len(pixels)
                               = SumSeq(pixels) * plot.values[k].den

\* C20, witness: two tiles with different intervals and the same center, one with a NaN pixel, one with no data pixels
C20_Witness ==
    /\ plot_pc = "done"
    /\ plot.kind = "Ok"
    /\ time_position = "Center"
    /\ Len(tile_stream) = 2
    /\ tile_stream[1].time # tile_stream[2].time
    /\ tile_stream[1].data = <<NaN, Px(2)>>
    /\ tile_stream[2].data = <<Px(1), Px(3)>>
    /\ tile_stream[2].no_data_value = Some(Px(1))
    /\ plot.timestamps = <<-2>>
    /\ plot.values[1].num * 2 = 5 * plot.values[1].den

\* C28: _initialize has a typed outcome for every list of sources, the empty
\* list included: it returns Ok or Err and never faults
C28_InitializeNeverFaults ==
    init_pc # "new" => initialized.kind \in {"Ok", "Err"}

\* C29: Reprojection::initialize with one vector source and no raster source
\* returns an error, not a fault, when the source's spatial reference is
\* unreferenced; on success the state is (source spatial reference, target
\* spatial reference) and the result descriptor has the target spatial
\* reference and the source's data type
C29_UnreferencedSourceIsError ==
    (reproj_pc = "done" /\ Len(vector_sources) = 1 /\ Len(raster_sources) = 0) =>
        /\ reproj_initialized.kind \in {"Ok", "Err"}
        /\ (vector_sources[1].init_ok
                /\ vector_sources[1].spatial_reference = "Unreferenced") =>
               reproj_initialized.kind = "Err"
        /\ reproj_initialized.kind = "Ok" =>
               /\ reproj_initialized.state
                      = <<vector_sources[1].spatial_reference, target_spatial_reference>>
               /\ reproj_initialized.result_descriptor.spatial_reference
                      = target_spatial_reference
               /\ reproj_initialized.result_descriptor.data_type
                      = vector_sources[1].data_type

\* the number of items stream i has handed to the Zip
Taken(i) == Len(zip_inputs[i]) - Len(zip_streams[i])
ShortestInput == MinOf({Len(zip_inputs[i]) : i \in 1..Len(zip_inputs)})

\* C21: the k-th vector a Zip emits is the k-th item of every stream in
\* stream order; a stream with a buffered value is not polled until the value
\* was emitted; the Zip ends when a polled stream has ended, after exactly
\* min(length of the inputs) vectors, and then answers every poll with the
\* end of the stream
C21_ZipEmitsRows ==
    zip_state # "off" =>
        /\ \A k \in 1..Len(zip_emitted) :
               zip_emitted[k] = [i \in 1..Len(zip_inputs) |-> zip_inputs[i][k]]
        /\ Len(zip_emitted) <= ShortestInput
        /\ zip_state # "Finished" =>
               \A i \in 1..Len(zip_inputs) :
                   /\ Taken(i) \in {Len(zip_emitted), Len(zip_emitted) + 1}
                   /\ Taken(i) = Len(zip_emitted) + 1 =>
                          /\ zip_values # <<>>
                          /\ zip_values[i] = Some(zip_inputs[i][Taken(i)])
        /\ zip_last = "Ready(Some)" => zip_values = <<>>
        /\ zip_last = "Pending" => \E i \in 1..Len(zip_values) : zip_values[i] = None
        /\ zip_state = "Finished" =>
               /\ Len(zip_emitted) = ShortestInput
               /\ zip_last = "Ready(None)"
               /\ \E i \in 1..Len(zip_inputs) :
                      zip_streams[i] = <<>> /\ Len(zip_inputs[i]) = ShortestInput

\* C21, witness: two streams of different lengths, the longer one buffered ahead, zipped to the end of the shorter
C21_Witness ==
    /\ zip_state = "Finished"
    /\ Len(zip_inputs) = 2
    /\ Len(zip_inputs[1]) = 3
    /\ Len(zip_inputs[2]) = 2
    /\ Len(zip_emitted) = 2
    /\ Taken(1) = 3

RECURSIVE Concatenation(_)
\* the points of a sequence of chunks, one after the other
Concatenation(chunks) ==
    IF chunks = <<>>
    THEN <<>>
    ELSE chunks[1].coordinates \o Concatenation(Tail(chunks))

\* C27: for every list of points and every chunk_byte_size the stream never
\* faults; it yields the points in their order in consecutive chunks of
\* chunk_byte_size / size_of(Coordinate2D) points, the last one possibly
\* shorter, all of them once it has ended, and after its end answers every
\* poll with the end of the stream
C27_PointStreamChunks ==
    point_pc \notin {"off", "new"} =>
        LET size == chunk_byte_size \div SizeOfCoordinate2D
            yielded == Concatenation(point_chunks)
        IN  /\ point_pc # "panic"
            /\ Len(yielded) <= Len(points)
            /\ yielded = SubSeq(points, 1, Len(yielded))
            /\ \A k \in 1..Len(point_chunks) :
                   /\ point_chunks[k].kind = "Ok"
                   /\ Len(point_chunks[k].coordinates) >= 1
                   /\ k < Len(point_chunks) => Len(point_chunks[k].coordinates) = size
                   /\ Len(point_chunks[k].coordinates) <= size
            /\ (Len(yielded) < Len(points) /\ point_chunks # <<>>) =>
                   Len(point_chunks[Len(point_chunks)].coordinates) = size
            /\ point_pc = "Ready(None)" => yielded = points
            /\ index > Len(point_chunks) => point_pc = "Ready(None)"

\* a run of create_overviews between its successful InProgressFlag::create and
\* its return
InProgress(p) == run_op[p] = "create" /\ created[p] /\ run_pc[p] # "done"

C24_OneCreationAtATime ==
    calls \subseteq {"create"} => Cardinality({p \in Runs : InProgress(p)}) <= 1

\* C25: a run whose InProgressFlag::create fails, because the folder is no
\* directory or because the flag file cannot be created, leaves an existing
\* flag file where it is
C25_FailedCreateKeepsFlag ==
    [][\A p \in Runs :
           (/\ run_op[p] = "create"
            /\ ~created[p] /\ ~created'[p]
            /\ run_pc[p] \in {"is_dir", "open", "drop", "drop_remove"}
            /\ run_pc'[p] # run_pc[p]
            /\ flag_exists) => flag_exists']_vars

\* C26: when no remove_overviews with force has been started, the folder is
\* never deleted while a create_overviews run is between its flag creation
\* and its return
C26_NoRemovalDuringCreation ==
    [][("force" \notin calls /\ folder_exists /\ ~folder_exists') =>
           \A p \in Runs : ~InProgress(p)]_vars
====
